---- MODULE Spec2Model ----
(***************************************************************************)
(* Turn-processing engine of the conversational tutoring worker:           *)
(* SessionEngine (createSession / processTurn / endSession), the tool      *)
(* executor and applier, the retry gate with its text normalizer, the      *)
(* decision schema with its fallback, and the router's quiz submission.    *)
(*                                                                         *)
(* Texts are sequences of one-character strings (learner texts,            *)
(* corrections) or of longer tokens (fixed template pieces); \o is string  *)
(* concatenation.  Identifiers produced by crypto.randomUUID() and the     *)
(* ISO timestamps (createdAt, updatedAt, ts, startedAt, completedAt) carry *)
(* no behaviour and are left out of the records.                           *)
(***************************************************************************)
EXTENDS Integers, Sequences, FiniteSets, TLC

VARIABLES
    storage,    \* InMemorySessionStorage.sessions: session id -> SessionState
    llmCalls,   \* number of generateTeacherDecision invocations made so far
    last,       \* observation of the most recent engine call (request, outcome);
                \* where calls interleave, inflight holds what each returned
    heap,       \* the SessionState objects allocated so far and, per session
                \* id, which of them the storage Map refers to (tracked
                \* only where calls interleave)
    inflight    \* per caller, the call it has in progress and where that
                \* call is suspended (only where calls interleave)

vars == <<storage, llmCalls, last, heap, inflight>>

(***************************************************************************)
(* Bounds of the model                                                     *)
(***************************************************************************)
\* full-path turns (turns that reach the decision call) explored in a run
MaxLlmCalls == 1
\* the same, in the runs that follow one pending retry to its end
MaxRetryLlmCalls == 2
\* the same, in the runs that observe the narration call
MaxNarratedLlmCalls == 2
\* the same, in the runs that call the tools directly
MaxToolLlmCalls == 1

(***************************************************************************)
(* Absent values                                                           *)
(***************************************************************************)
Undefined == [undefined |-> TRUE]       \* an absent object-valued field
NoId == "<undefined>"                   \* an absent string-valued field
NoText == <<"<undefined>">>             \* an absent text-valued field
NullTool == [name |-> "<null>"]         \* decision.tool === null

(***************************************************************************)
(* Content pack (fixture): scenarios, personas, quizzes                    *)
(***************************************************************************)
Scenarios ==
    { [id |-> "taxi", levelId |-> "A1", personaId |-> "jorge",
       initialMessage |-> <<"¿A dónde vamos?">>, postQuizId |-> "q1"],
      [id |-> "cafe", levelId |-> "A2", personaId |-> "profe",
       initialMessage |-> <<"¿Qué te preparo hoy?">>, postQuizId |-> NoId] }

Personas == { [id |-> "jorge"], [id |-> "valentina"], [id |-> "profe"] }

\* each item: number of options and the index of the correct one
Quizzes ==
    { [id |-> "q1", items |-> << [numOptions |-> 2, correctIndex |-> 0],
                                 [numOptions |-> 3, correctIndex |-> 1] >>],
      [id |-> "q3", items |-> << [numOptions |-> 3, correctIndex |-> 0],
                                 [numOptions |-> 3, correctIndex |-> 1],
                                 [numOptions |-> 3, correctIndex |-> 2] >>],
      [id |-> "q8", items |-> [i \in 1..8 |-> [numOptions |-> 2, correctIndex |-> 0]]] }

getScenarioById(id) ==
    IF \E s \in Scenarios : s.id = id
    THEN CHOOSE s \in Scenarios : s.id = id
    ELSE Undefined

getPersonaById(id) ==
    IF \E p \in Personas : p.id = id
    THEN CHOOSE p \in Personas : p.id = id
    ELSE Undefined

getQuizById(id) ==
    IF \E q \in Quizzes : q.id = id
    THEN CHOOSE q \in Quizzes : q.id = id
    ELSE Undefined

(***************************************************************************)
(* Text normalizer                                                         *)
(***************************************************************************)
WhitespaceChars == {" ", "\t"}
PunctuationChars == {".", ",", "!", "?", ";", ":"}

LowerChar(c) ==
    CASE c = "A" -> "a"
      [] c = "H" -> "h"
      [] c = "L" -> "l"
      [] c = "O" -> "o"
      [] OTHER -> c

toLowerCase(s) == [i \in 1..Len(s) |-> LowerChar(s[i])]

RECURSIVE DropLeading(_, _)
DropLeading(s, chars) ==
    IF s # <<>> /\ Head(s) \in chars THEN DropLeading(Tail(s), chars) ELSE s

RECURSIVE DropTrailing(_, _)
DropTrailing(s, chars) ==
    IF s # <<>> /\ s[Len(s)] \in chars
    THEN DropTrailing(SubSeq(s, 1, Len(s) - 1), chars)
    ELSE s

trim(s) == DropTrailing(DropLeading(s, WhitespaceChars), WhitespaceChars)

\* .replace(/\s+/g, ' '): every maximal run of whitespace becomes one space
RECURSIVE collapseWhitespace(_)
collapseWhitespace(s) ==
    IF s = <<>> THEN <<>>
    ELSE IF Head(s) \in WhitespaceChars
         THEN <<" ">> \o collapseWhitespace(DropLeading(s, WhitespaceChars))
         ELSE <<Head(s)>> \o collapseWhitespace(Tail(s))

\* seeded fault: punctuation is removed everywhere, not only at the ends
stripPunctuation_Everywhere(s) ==
    SelectSeq(s, LAMBDA c : c \notin PunctuationChars)

\* .replace(/^[.,!?;:]+|[.,!?;:]+$/g, '')
stripPunctuation(s) ==
    DropTrailing(DropLeading(s, PunctuationChars), PunctuationChars)

normalizeForExactMatch(text) ==
    stripPunctuation(collapseWhitespace(trim(toLowerCase(text))))

\* seeded fault: the texts are compared as typed
isExactMatch_Raw(text1, text2) ==
    text1 = text2

isExactMatch(text1, text2) ==
    normalizeForExactMatch(text1) = normalizeForExactMatch(text2)

(***************************************************************************)
(* Decision schema and fallback                                            *)
(***************************************************************************)
ToolNames == {"start_quiz", "grade_quiz", "get_hint", "log_mistake", "mark_complete"}

\* ToolSchema: the argument shape of each of the five tools
ToolSchema(tool) ==
    CASE tool.name = "start_quiz" -> tool.args.quizId # ""
      [] tool.name = "grade_quiz" ->
            /\ tool.args.quizId # ""
            /\ \A i \in 1..Len(tool.args.answers) : tool.args.answers[i] >= -1
      [] tool.name = "get_hint" -> TRUE
      [] tool.name = "log_mistake" ->
            Len(tool.args.original) >= 1 /\ Len(tool.args.corrected) >= 1
      [] tool.name = "mark_complete" -> Len(tool.args.summary) >= 1
      [] OTHER -> FALSE

\* seeded fault: the schema without its superRefine rule
TeacherDecisionSchema_NoRefine(raw) ==
    /\ Len(raw.feedback) >= 1
    /\ raw.nextPhase \in {NoId, "roleplay", "quiz", "completed"}
    /\ raw.tool = NullTool \/ ToolSchema(raw.tool)
    /\ Len(raw.reply) >= 1

\* TeacherDecisionSchema.safeParse(raw).success
TeacherDecisionSchema(raw) ==
    /\ Len(raw.feedback) >= 1
    /\ raw.nextPhase \in {NoId, "roleplay", "quiz", "completed"}
    /\ raw.tool = NullTool \/ ToolSchema(raw.tool)
    /\ Len(raw.reply) >= 1
    \* superRefine: shouldRetry requires a correction that is non-empty after trim
    /\ ~(raw.shouldRetry /\ (raw.correction = NoText \/ raw.correction = <<>>
                              \/ Len(trim(raw.correction)) = 0))

\* seeded fault: the fallback asks for a hint
createFallbackDecision_WithHint ==
    [feedback |-> <<"fallback">>,
     correction |-> NoText,
     isMistake |-> FALSE,
     shouldRetry |-> FALSE,
     nextPhase |-> NoId,
     tool |-> [name |-> "get_hint", args |-> [topic |-> NoId]],
     reply |-> <<"Sorry-something glitched. Please try that again.">>]

\* createFallbackDecision (the reply's dash is U+2014 in the source)
createFallbackDecision ==
    [feedback |-> <<"fallback">>,
     correction |-> NoText,
     isMistake |-> FALSE,
     shouldRetry |-> FALSE,
     nextPhase |-> NoId,
     tool |-> NullTool,
     reply |-> <<"Sorry-something glitched. Please try that again.">>]

\* generateTeacherDecision: the collaborator's response is a thrown error
\* (network failure, timeout, non-2xx, unparsable body) or a parsed JSON
\* object, which is returned only if it passes the schema.
generateTeacherDecision(response) ==
    IF response.kind = "output" /\ TeacherDecisionSchema(response.raw)
    THEN [threw |-> FALSE, decision |-> response.raw]
    ELSE [threw |-> TRUE]

(***************************************************************************)
(* Tool executor                                                           *)
(***************************************************************************)
RECURSIVE CountCorrect(_, _, _)
CountCorrect(answers, items, i) ==
    IF i > Len(answers) THEN 0
    ELSE (IF answers[i] = items[i].correctIndex THEN 1 ELSE 0)
         + CountCorrect(answers, items, i + 1)

\* seeded fault: the score is rounded down
MathRound_Floor(num, den) == num \div den

\* Math.round(x) for x = num / den >= 0: halves round up
MathRound(num, den) == (2 * num + den) \div (2 * den)

\* seeded fault: answers below -1 pass the range check
FirstOutOfRange_NoLowerBound(answers, items) ==
    LET bad == { i \in 1..Len(answers) : answers[i] >= items[i].numOptions }
    IN IF bad = {} THEN 0 ELSE CHOOSE i \in bad : \A j \in bad : i <= j

\* index of the first out-of-range answer, 0 when all are in range
FirstOutOfRange(answers, items) ==
    LET bad == { i \in 1..Len(answers) :
                   answers[i] # -1 /\ (answers[i] < 0 \/ answers[i] >= items[i].numOptions) }
    IN IF bad = {} THEN 0 ELSE CHOOSE i \in bad : \A j \in bad : i <= j

HintTemplates ==
    [ greeting |-> <<"Try greeting first with \"Hola\" or \"¿Cómo estás?\"">>,
      polite |-> <<"Use \"Por favor\" and \"Gracias\" to be polite">>,
      directions |-> <<"Ask \"¿Dónde está...?\" for locations">>,
      numbers |-> <<"Remember numbers 1-10: uno, dos, tres, cuatro, cinco...">>,
      time |-> <<"Ask \"¿Qué hora es?\" to ask for the time">>,
      food |-> <<"Use \"Me gustaria...\" to order food">> ]

\* topic?.toLowerCase() || '' on the topics the model draws
LowerTopic(topic) ==
    CASE topic = NoId -> ""
      [] topic = "Greeting" -> "greeting"
      [] OTHER -> topic

executeTool(tool, session) ==
    CASE tool.name = "start_quiz" ->
            LET quiz == getQuizById(tool.args.quizId) IN
            IF quiz = Undefined
            THEN [toolName |-> "start_quiz",
                  resultData |-> [success |-> FALSE,
                                  message |-> <<"Quiz not found: ", tool.args.quizId>>,
                                  data |-> Undefined]]
            ELSE [toolName |-> "start_quiz",
                  resultData |-> [success |-> TRUE,
                                  message |-> <<"Quiz \"", tool.args.quizId, "\" started with ",
                                                ToString(Len(quiz.items)), " questions">>,
                                  data |-> [activeQuiz |-> [quizId |-> tool.args.quizId]]]]
      [] tool.name = "grade_quiz" ->
            LET quiz == getQuizById(tool.args.quizId)
                answers == tool.args.answers
            IN
            IF quiz = Undefined
            THEN [toolName |-> "grade_quiz",
                  resultData |-> [success |-> FALSE,
                                  message |-> <<"Quiz not found: ", tool.args.quizId>>,
                                  data |-> Undefined]]
            ELSE IF Len(answers) # Len(quiz.items)
            THEN [toolName |-> "grade_quiz",
                  resultData |-> [success |-> FALSE,
                                  message |-> <<"Expected ", ToString(Len(quiz.items)),
                                                " answers, got ", ToString(Len(answers))>>,
                                  data |-> Undefined]]
            ELSE IF FirstOutOfRange(answers, quiz.items) # 0
            THEN LET i == FirstOutOfRange(answers, quiz.items) IN
                 [toolName |-> "grade_quiz",
                  resultData |-> [success |-> FALSE,
                                  message |-> <<"Answer ", ToString(i - 1), " (", ToString(answers[i]),
                                                ") is out of range [0, ",
                                                ToString(quiz.items[i].numOptions - 1), "]">>,
                                  data |-> Undefined]]
            ELSE LET correctCount == CountCorrect(answers, quiz.items, 1)
                     score == MathRound(correctCount * 100, Len(quiz.items))
                 IN
                 [toolName |-> "grade_quiz",
                  resultData |-> [success |-> TRUE,
                                  message |-> <<"Quiz graded: ", ToString(correctCount), "/",
                                                ToString(Len(quiz.items)), " correct (",
                                                ToString(score), "%)">>,
                                  data |-> [quizResult |-> [quizId |-> tool.args.quizId,
                                                            score |-> score,
                                                            total |-> Len(quiz.items),
                                                            answers |-> answers]]]]
      [] tool.name = "get_hint" ->
            LET topic == tool.args.topic
                lowerTopic == LowerTopic(topic)
                hint == IF lowerTopic \in DOMAIN HintTemplates
                        THEN HintTemplates[lowerTopic]
                        ELSE <<"Review the learning goals and try using the vocabulary from this lesson.">>
            IN
            [toolName |-> "get_hint",
             resultData |-> [success |-> TRUE,
                             message |-> IF (topic = NoId \/ topic = "") /\ session.lastDecision # Undefined
                                         THEN <<"Remember to use the vocabulary and phrases from the learning goals!">>
                                         ELSE hint,
                             data |-> Undefined]]
      [] tool.name = "log_mistake" ->       \* the arrow is U+2192 in the source
            [toolName |-> "log_mistake",
             resultData |-> [success |-> TRUE,
                             message |-> <<"Logged mistake: \"">> \o tool.args.original
                                         \o <<"\" -> \"">> \o tool.args.corrected \o <<"\"">>,
                             data |-> [mistake |-> [type |-> IF tool.args.type \in {NoId, ""}
                                                             THEN "general" ELSE tool.args.type,
                                                    original |-> tool.args.original,
                                                    corrected |-> tool.args.corrected]]]]
      [] tool.name = "mark_complete" ->
            [toolName |-> "mark_complete",
             resultData |-> [success |-> TRUE,
                             message |-> <<"Session marked as completed">>,
                             data |-> [completion |-> [summary |-> tool.args.summary]]]]

(***************************************************************************)
(* Tool applier                                                            *)
(***************************************************************************)
\* seeded fault: mark_complete records the completion and leaves the phase
applyToolResultToSession_CompletionKeepsPhase(session, toolName, resultData) ==
    IF ~resultData.success THEN session
    ELSE CASE toolName = "start_quiz" ->
                [session EXCEPT !.phase = "quiz",
                                !.activeQuiz = resultData.data.activeQuiz]
           [] toolName = "grade_quiz" ->
                [session EXCEPT !.quizResult = resultData.data.quizResult]
           [] toolName = "log_mistake" ->
                [session EXCEPT !.mistakes = Append(session.mistakes, resultData.data.mistake)]
           [] toolName = "mark_complete" ->
                [session EXCEPT !.completion = resultData.data.completion]
           [] toolName = "get_hint" -> session

\* seeded fault: grading a quiz completes the session
applyToolResultToSession_GradeCompletes(session, toolName, resultData) ==
    IF ~resultData.success THEN session
    ELSE CASE toolName = "start_quiz" ->
                [session EXCEPT !.phase = "quiz",
                                !.activeQuiz = resultData.data.activeQuiz]
           [] toolName = "grade_quiz" ->
                [session EXCEPT !.phase = "completed",
                                !.quizResult = resultData.data.quizResult]
           [] toolName = "log_mistake" ->
                [session EXCEPT !.mistakes = Append(session.mistakes, resultData.data.mistake)]
           [] toolName = "mark_complete" ->
                [session EXCEPT !.phase = "completed",
                                !.completion = resultData.data.completion]
           [] toolName = "get_hint" -> session

\* seeded fault: a result that reports failure is applied when it has data
applyToolResultToSession_AppliesFailure(session, toolName, resultData) ==
    IF ~resultData.success /\ resultData.data = Undefined THEN session
    ELSE CASE toolName = "start_quiz" ->
                [session EXCEPT !.phase = "quiz",
                                !.activeQuiz = resultData.data.activeQuiz]
           [] toolName = "grade_quiz" ->
                [session EXCEPT !.quizResult = resultData.data.quizResult]
           [] toolName = "log_mistake" ->
                [session EXCEPT !.mistakes = Append(session.mistakes, resultData.data.mistake)]
           [] toolName = "mark_complete" ->
                [session EXCEPT !.phase = "completed",
                                !.completion = resultData.data.completion]
           [] toolName = "get_hint" -> session

\* seeded fault: grading a quiz clears the active quiz
applyToolResultToSession_GradeClearsActiveQuiz(session, toolName, resultData) ==
    IF ~resultData.success THEN session
    ELSE CASE toolName = "start_quiz" ->
                [session EXCEPT !.phase = "quiz",
                                !.activeQuiz = resultData.data.activeQuiz]
           [] toolName = "grade_quiz" ->
                [session EXCEPT !.quizResult = resultData.data.quizResult,
                                !.activeQuiz = Undefined]
           [] toolName = "log_mistake" ->
                [session EXCEPT !.mistakes = Append(session.mistakes, resultData.data.mistake)]
           [] toolName = "mark_complete" ->
                [session EXCEPT !.phase = "completed",
                                !.completion = resultData.data.completion]
           [] toolName = "get_hint" -> session

\* seeded fault: a hint counts as a turn
applyToolResultToSession_HintCountsAsTurn(session, toolName, resultData) ==
    IF ~resultData.success THEN session
    ELSE CASE toolName = "start_quiz" ->
                [session EXCEPT !.phase = "quiz",
                                !.activeQuiz = resultData.data.activeQuiz]
           [] toolName = "grade_quiz" ->
                [session EXCEPT !.quizResult = resultData.data.quizResult]
           [] toolName = "log_mistake" ->
                [session EXCEPT !.mistakes = Append(session.mistakes, resultData.data.mistake)]
           [] toolName = "mark_complete" ->
                [session EXCEPT !.phase = "completed",
                                !.completion = resultData.data.completion]
           [] toolName = "get_hint" ->
                [session EXCEPT !.turnCount = session.turnCount + 1]

applyToolResultToSession(session, toolName, resultData) ==
    IF ~resultData.success THEN session
    ELSE CASE toolName = "start_quiz" ->
                [session EXCEPT !.phase = "quiz",
                                !.activeQuiz = resultData.data.activeQuiz]
           [] toolName = "grade_quiz" ->
                [session EXCEPT !.quizResult = resultData.data.quizResult]
           [] toolName = "log_mistake" ->
                [session EXCEPT !.mistakes = Append(session.mistakes, resultData.data.mistake)]
           [] toolName = "mark_complete" ->
                [session EXCEPT !.phase = "completed",
                                !.completion = resultData.data.completion]
           [] toolName = "get_hint" -> session

(***************************************************************************)
(* Tool narration (follow-up collaborator call)                            *)
(***************************************************************************)
\* seeded fault: a failed fetch is answered like a non-2xx response
generateToolNarration_FetchErrorDecorates(response, toolResult) ==
    CASE response.kind = "throw" -> [threw |-> TRUE]
      [] response.kind \in {"http_error", "fetch_error"} ->
            [threw |-> FALSE,
             text |-> IF toolResult.success
                      THEN <<"¡">> \o toolResult.message \o <<"!">>
                      ELSE <<"Hubo un problema: ">> \o toolResult.message]
      [] response.kind = "output" ->
            [threw |-> FALSE,
             text |-> IF response.reply = NoText \/ response.reply = <<>>
                      THEN toolResult.message ELSE response.reply]
      [] OTHER -> [threw |-> FALSE, text |-> toolResult.message]

\* generateToolNarration: throws only before its own try block (missing
\* key); a non-2xx answer yields the decorated tool message; a missing or
\* unparsable body, a missing or empty reply, and a failed fetch all yield
\* the tool message itself.
generateToolNarration(response, toolResult) ==
    CASE response.kind = "throw" -> [threw |-> TRUE]
      [] response.kind = "http_error" ->
            [threw |-> FALSE,
             text |-> IF toolResult.success
                      THEN <<"¡">> \o toolResult.message \o <<"!">>
                      ELSE <<"Hubo un problema: ">> \o toolResult.message]
      [] response.kind = "output" ->
            [threw |-> FALSE,
             text |-> IF response.reply = NoText \/ response.reply = <<>>
                      THEN toolResult.message ELSE response.reply]
      [] OTHER -> [threw |-> FALSE, text |-> toolResult.message]

narrationTools == {"start_quiz", "grade_quiz", "mark_complete"}

(***************************************************************************)
(* Session engine                                                          *)
(***************************************************************************)
\* the attempt count at which a failed retry stops being answered locally
MaxRetryAttempts == 3

generateRetryMessage(expected, attempts, persona) ==
    LET normalizedExpected == normalizeForExactMatch(expected) IN
    CASE persona.id = "jorge" ->
            IF attempts <= 2
            THEN <<"(Jorge) Atrévete a intentarlo de nuevo: \"">> \o normalizedExpected \o <<"\"">>
            ELSE <<"(Jorge) ¡Vamos, tú puedes! La respuesta correcta es \"">> \o normalizedExpected
                 \o <<"\". ¡Inténtalo de nuevo!">>
      [] persona.id = "valentina" ->
            IF attempts <= 2
            THEN <<"(Valentina) Casi lo tienes. Recuerda: \"">> \o normalizedExpected
                 \o <<"\". ¿Puedes intentarlo otra vez?">>
            ELSE <<"(Valentina) ¡No te rindas! La frase correcta es \"">> \o normalizedExpected
                 \o <<"\". ¡Tú puedes!">>
      [] OTHER ->
            IF attempts <= 2
            THEN <<"Intenta de nuevo: \"">> \o normalizedExpected \o <<"\"">>
            ELSE <<"La respuesta correcta es \"">> \o normalizedExpected
                 \o <<"\". Por favor, inténtalo de nuevo.">>

\* seeded fault: the scenario's level is not compared with the requested one
createSession_NoLevelCheck(sessionId, levelId, scenarioId) ==
    LET scenario == getScenarioById(scenarioId) IN
    IF scenario = Undefined
    THEN [ok |-> FALSE, error |-> "ScenarioNotFound"]
    ELSE [ok |-> TRUE,
          session |-> [id |-> sessionId,
                       levelId |-> levelId,
                       scenarioId |-> scenarioId,
                       phase |-> "roleplay",
                       transcript |-> << [role |-> "tutor", text |-> scenario.initialMessage] >>,
                       turnCount |-> 0,
                       mistakes |-> <<>>,
                       postQuizId |-> scenario.postQuizId,
                       pendingRetry |-> Undefined,
                       lastDecision |-> Undefined,
                       activeQuiz |-> Undefined,
                       quizResult |-> Undefined,
                       completion |-> Undefined]]

\* SessionEngine.createSession: the new record, or the error thrown
createSession(sessionId, levelId, scenarioId) ==
    LET scenario == getScenarioById(scenarioId) IN
    IF scenario = Undefined
    THEN [ok |-> FALSE, error |-> "ScenarioNotFound"]
    ELSE IF scenario.levelId # levelId
    THEN [ok |-> FALSE, error |-> "LevelMismatch"]
    ELSE [ok |-> TRUE,
          session |-> [id |-> sessionId,
                       levelId |-> levelId,
                       scenarioId |-> scenarioId,
                       phase |-> "roleplay",
                       transcript |-> << [role |-> "tutor", text |-> scenario.initialMessage] >>,
                       turnCount |-> 0,
                       mistakes |-> <<>>,
                       postQuizId |-> scenario.postQuizId,
                       pendingRetry |-> Undefined,
                       lastDecision |-> Undefined,
                       activeQuiz |-> Undefined,
                       quizResult |-> Undefined,
                       completion |-> Undefined]]

\* processTurn, lines 427-445: the error thrown before anything is done,
\* "" when the call goes ahead
TurnPrecondition_NoPhaseCheck(loaded) ==
    IF loaded = Undefined THEN "NotFound"
    ELSE IF getScenarioById(loaded.scenarioId) = Undefined THEN "ScenarioNotFound"
    ELSE IF getPersonaById(getScenarioById(loaded.scenarioId).personaId) = Undefined
    THEN "PersonaNotFound"
    ELSE ""

TurnPrecondition(loaded) ==
    IF loaded = Undefined THEN "NotFound"
    ELSE IF loaded.phase # "roleplay" THEN "InvalidPhase"
    ELSE IF getScenarioById(loaded.scenarioId) = Undefined THEN "ScenarioNotFound"
    ELSE IF getPersonaById(getScenarioById(loaded.scenarioId).personaId) = Undefined
    THEN "PersonaNotFound"
    ELSE ""

\* seeded fault: the third failure is still answered locally
RetryGate_NudgesAtMax(pendingRetry, userText) ==
    IF pendingRetry = Undefined
    THEN [kind |-> "none", pendingRetry |-> Undefined]
    ELSE IF isExactMatch(userText, pendingRetry.expected)
    THEN [kind |-> "success", pendingRetry |-> Undefined]
    ELSE LET newAttempts == pendingRetry.attempts + 1 IN
         IF newAttempts > MaxRetryAttempts
         THEN [kind |-> "escalate",
               pendingRetry |-> [expected |-> pendingRetry.expected, attempts |-> newAttempts]]
         ELSE [kind |-> "nudge",
               pendingRetry |-> [expected |-> pendingRetry.expected, attempts |-> newAttempts]]

\* seeded fault: the local answer stops one attempt early
RetryGate_EscalatesEarly(pendingRetry, userText) ==
    IF pendingRetry = Undefined
    THEN [kind |-> "none", pendingRetry |-> Undefined]
    ELSE IF isExactMatch(userText, pendingRetry.expected)
    THEN [kind |-> "success", pendingRetry |-> Undefined]
    ELSE LET newAttempts == pendingRetry.attempts + 1 IN
         IF newAttempts >= MaxRetryAttempts - 1
         THEN [kind |-> "escalate",
               pendingRetry |-> [expected |-> pendingRetry.expected, attempts |-> newAttempts]]
         ELSE [kind |-> "nudge",
               pendingRetry |-> [expected |-> pendingRetry.expected, attempts |-> newAttempts]]

\* processTurn, lines 457-513: the retry gate.  kind is "none" (no pending
\* retry), "success" (cleared), "escalate" (falls through to the decision
\* call) or "nudge" (answered locally); pendingRetry is the local variable
\* after the gate.
RetryGate(pendingRetry, userText) ==
    IF pendingRetry = Undefined
    THEN [kind |-> "none", pendingRetry |-> Undefined]
    ELSE IF isExactMatch(userText, pendingRetry.expected)
    THEN [kind |-> "success", pendingRetry |-> Undefined]
    ELSE LET newAttempts == pendingRetry.attempts + 1 IN
         IF newAttempts >= MaxRetryAttempts
         THEN [kind |-> "escalate",
               pendingRetry |-> [expected |-> pendingRetry.expected, attempts |-> newAttempts]]
         ELSE [kind |-> "nudge",
               pendingRetry |-> [expected |-> pendingRetry.expected, attempts |-> newAttempts]]

\* seeded fault: the local answer is saved without the learner's message
NudgeTurn_OmitsUserMessage(loaded, userMessage, gate, persona) ==
    LET retryMessage == generateRetryMessage(gate.pendingRetry.expected,
                                              gate.pendingRetry.attempts, persona)
        tutorMessage == [role |-> "tutor", text |-> retryMessage]
    IN [loaded EXCEPT !.transcript = loaded.transcript \o <<tutorMessage>>,
                      !.turnCount = loaded.turnCount + 1,
                      !.pendingRetry = gate.pendingRetry]

\* seeded fault: the stored pending retry is written back as it was loaded
NudgeTurn_KeepsAttempts(loaded, userMessage, gate, persona) ==
    LET retryMessage == generateRetryMessage(gate.pendingRetry.expected,
                                              gate.pendingRetry.attempts, persona)
        tutorMessage == [role |-> "tutor", text |-> retryMessage]
    IN [loaded EXCEPT !.transcript = loaded.transcript \o <<userMessage, tutorMessage>>,
                      !.turnCount = loaded.turnCount + 1,
                      !.pendingRetry = loaded.pendingRetry]

\* processTurn, lines 479-499: the session saved by a locally answered turn
NudgeTurn(loaded, userMessage, gate, persona) ==
    LET retryMessage == generateRetryMessage(gate.pendingRetry.expected,
                                              gate.pendingRetry.attempts, persona)
        tutorMessage == [role |-> "tutor", text |-> retryMessage]
    IN [loaded EXCEPT !.transcript = loaded.transcript \o <<userMessage, tutorMessage>>,
                      !.turnCount = loaded.turnCount + 1,
                      !.pendingRetry = gate.pendingRetry]

\* seeded fault: the tool is executed on the session as this turn will save
\* it (this turn's decision already recorded)
ToolStep_RunsOnUpdatedSession(session, decision, toolThrows, narration) ==
    IF decision.tool = NullTool
    THEN [session |-> session, tutorReply |-> decision.reply, finalDecision |-> decision,
          toolCalls |-> 0, toolStatus |-> "none", narrationCalls |-> 0]
    ELSE IF toolThrows
    THEN [session |-> session, tutorReply |-> decision.reply, finalDecision |-> decision,
          toolCalls |-> 1, toolStatus |-> "threw", narrationCalls |-> 0]
    ELSE LET toolResult == executeTool(decision.tool,
                                       [session EXCEPT !.lastDecision = decision,
                                                       !.turnCount = session.turnCount + 1])
             applied == applyToolResultToSession(session, toolResult.toolName, toolResult.resultData)
             narrated == toolResult.toolName \in narrationTools /\ toolResult.resultData.success
             narr == generateToolNarration(narration, toolResult.resultData)
             tutorReply == IF narrated /\ ~narr.threw
                           THEN narr.text
                           ELSE toolResult.resultData.message
         IN [session |-> applied,
             tutorReply |-> tutorReply,
             finalDecision |-> [decision EXCEPT !.reply = tutorReply, !.tool = NullTool],
             toolCalls |-> 1,
             toolStatus |-> IF toolResult.resultData.success THEN "succeeded" ELSE "failed",
             narrationCalls |-> IF narrated THEN 1 ELSE 0]

\* seeded fault: a tool that reports failure stays on the final decision
ToolStep_KeepsTool(session, decision, toolThrows, narration) ==
    IF decision.tool = NullTool
    THEN [session |-> session, tutorReply |-> decision.reply, finalDecision |-> decision,
          toolCalls |-> 0, toolStatus |-> "none", narrationCalls |-> 0]
    ELSE IF toolThrows
    THEN [session |-> session, tutorReply |-> decision.reply, finalDecision |-> decision,
          toolCalls |-> 1, toolStatus |-> "threw", narrationCalls |-> 0]
    ELSE LET toolResult == executeTool(decision.tool, session)
             applied == applyToolResultToSession(session, toolResult.toolName, toolResult.resultData)
             narrated == toolResult.toolName \in narrationTools /\ toolResult.resultData.success
             narr == generateToolNarration(narration, toolResult.resultData)
             tutorReply == IF narrated /\ ~narr.threw
                           THEN narr.text
                           ELSE toolResult.resultData.message
         IN [session |-> applied,
             tutorReply |-> tutorReply,
             finalDecision |-> IF toolResult.resultData.success
                               THEN [decision EXCEPT !.reply = tutorReply, !.tool = NullTool]
                               ELSE [decision EXCEPT !.reply = tutorReply],
             toolCalls |-> 1,
             toolStatus |-> IF toolResult.resultData.success THEN "succeeded" ELSE "failed",
             narrationCalls |-> IF narrated THEN 1 ELSE 0]

\* processTurn, lines 551-636: tool execution and narration for a decision.
\* Yields the session after the applier, the tutor reply, the final
\* decision, and what was invoked.  toolStatus is "none" (no tool on the
\* decision), "threw" (executeTool raised), "failed" or "succeeded" (it
\* returned a result with that success flag).
ToolStep(session, decision, toolThrows, narration) ==
    IF decision.tool = NullTool
    THEN [session |-> session, tutorReply |-> decision.reply, finalDecision |-> decision,
          toolCalls |-> 0, toolStatus |-> "none", narrationCalls |-> 0]
    ELSE IF toolThrows
    THEN [session |-> session, tutorReply |-> decision.reply, finalDecision |-> decision,
          toolCalls |-> 1, toolStatus |-> "threw", narrationCalls |-> 0]
    ELSE LET toolResult == executeTool(decision.tool, session)
             applied == applyToolResultToSession(session, toolResult.toolName, toolResult.resultData)
             narrated == toolResult.toolName \in narrationTools /\ toolResult.resultData.success
             narr == generateToolNarration(narration, toolResult.resultData)
             tutorReply == IF narrated /\ ~narr.threw
                           THEN narr.text
                           ELSE toolResult.resultData.message
         IN [session |-> applied,
             tutorReply |-> tutorReply,
             finalDecision |-> [decision EXCEPT !.reply = tutorReply, !.tool = NullTool],
             toolCalls |-> 1,
             toolStatus |-> IF toolResult.resultData.success THEN "succeeded" ELSE "failed",
             narrationCalls |-> IF narrated THEN 1 ELSE 0]

\* processTurn, lines 645-649: truthiness of shouldRetry and of correction
NewPendingRetry(finalDecision) ==
    IF finalDecision.shouldRetry
       /\ finalDecision.correction # NoText /\ finalDecision.correction # <<>>
    THEN [expected |-> finalDecision.correction, attempts |-> 0]
    ELSE Undefined

\* seeded fault: the learner message is left out of the saved transcript
UpdatedSession_DropsUserMessage(session, userMessage, tutorMessage, newPendingRetry, finalDecision) ==
    [session EXCEPT !.transcript = session.transcript \o <<tutorMessage>>,
                    !.turnCount = session.turnCount + 1,
                    !.pendingRetry = newPendingRetry,
                    !.lastDecision = finalDecision]

\* seeded fault: a decision flagged as a mistake is logged without a tool
UpdatedSession_LogsFlaggedMistake(session, userMessage, tutorMessage, newPendingRetry, finalDecision) ==
    [session EXCEPT !.transcript = session.transcript \o <<userMessage, tutorMessage>>,
                    !.turnCount = session.turnCount + 1,
                    !.pendingRetry = newPendingRetry,
                    !.lastDecision = finalDecision,
                    !.mistakes = IF finalDecision.isMistake
                                 THEN Append(session.mistakes,
                                             [type |-> "general", original |-> userMessage.text,
                                              corrected |-> finalDecision.correction])
                                 ELSE session.mistakes]

\* seeded fault: the turn is saved without counting it
UpdatedSession_KeepsTurnCount(session, userMessage, tutorMessage, newPendingRetry, finalDecision) ==
    [session EXCEPT !.transcript = session.transcript \o <<userMessage, tutorMessage>>,
                    !.pendingRetry = newPendingRetry,
                    !.lastDecision = finalDecision]

\* processTurn, lines 651-659: the session saved by a full-path turn
UpdatedSession(session, userMessage, tutorMessage, newPendingRetry, finalDecision) ==
    [session EXCEPT !.transcript = session.transcript \o <<userMessage, tutorMessage>>,
                    !.turnCount = session.turnCount + 1,
                    !.pendingRetry = newPendingRetry,
                    !.lastDecision = finalDecision]

\* SessionEngine.processTurn on the loaded record (Undefined: not found).
\* llm, toolThrows, narration, llmElapsed and toolElapsed are what the
\* collaborators and the clock do during the call.
processTurn(loaded, userText, llm, toolThrows, narration, llmElapsed, toolElapsed) ==
    IF TurnPrecondition(loaded) # ""
    THEN [ok |-> FALSE, error |-> TurnPrecondition(loaded),
          llmInvocations |-> 0, toolCalls |-> 0, narrationCalls |-> 0]
    ELSE
    LET persona == getPersonaById(getScenarioById(loaded.scenarioId).personaId)
        userMessage == [role |-> "user", text |-> userText]
        gate == RetryGate(loaded.pendingRetry, userText)
    IN
    IF gate.kind = "nudge"
    THEN [ok |-> TRUE,
          session |-> NudgeTurn(loaded, userMessage, gate, persona),
          llmMs |-> 0, toolMs |-> 0,
          gate |-> gate,
          llmInvocations |-> 0, llmOutcome |-> "none", decision |-> Undefined,
          toolCalls |-> 0, toolStatus |-> "none", narrationCalls |-> 0]
    ELSE
    LET generated == generateTeacherDecision(llm)
        decision == IF generated.threw THEN createFallbackDecision ELSE generated.decision
        step == ToolStep(loaded, decision, toolThrows, narration)
        tutorMessage == [role |-> "tutor", text |-> step.tutorReply]
    IN [ok |-> TRUE,
        session |-> UpdatedSession(step.session, userMessage, tutorMessage,
                                   NewPendingRetry(step.finalDecision), step.finalDecision),
        llmMs |-> llmElapsed,
        toolMs |-> IF decision.tool = NullTool THEN 0 ELSE toolElapsed,
        gate |-> gate,
        llmInvocations |-> 1,
        llmOutcome |-> IF llm.kind = "output" /\ TeacherDecisionSchema(llm.raw) THEN "valid"
                       ELSE IF llm.kind = "output" THEN "rejected" ELSE "threw",
        decision |-> decision,
        toolCalls |-> step.toolCalls, toolStatus |-> step.toolStatus,
        narrationCalls |-> step.narrationCalls]

\* SessionEngine.endSession on the loaded record
endSession(loaded) ==
    IF loaded = Undefined THEN [ok |-> FALSE, error |-> "NotFound"]
    ELSE [ok |-> TRUE,
          session |-> [loaded EXCEPT !.phase = "completed"],
          summary |-> [turns |-> loaded.turnCount,
                       hasQuiz |-> loaded.postQuizId # NoId /\ loaded.postQuizId # "",
                       quizId |-> loaded.postQuizId]]

\* seeded fault: ending a session sends it back to roleplay
endSessionHandler_Reopens(loaded) ==
    IF loaded = Undefined THEN [ok |-> FALSE, error |-> "NotFound"]
    ELSE [ok |-> TRUE,
          session |-> [loaded EXCEPT !.phase = "roleplay"],
          summary |-> Undefined]

\* SessionRouter.endSession on the loaded record.  The handler does not call
\* SessionEngine.endSession: it sets the phase on the loaded record, saves
\* it and answers with {session}; the response has no summary.
endSessionHandler(loaded) ==
    IF loaded = Undefined THEN [ok |-> FALSE, error |-> "NotFound"]
    ELSE [ok |-> TRUE,
          session |-> [loaded EXCEPT !.phase = "completed"],
          summary |-> Undefined]

\* executeTool's handling of its parameter (lines 251-264): the one
\* parameter is destructured into tool and session and tool.name is read.
\* Given an object with a tool, the executor runs; given anything else (a
\* string has no property tool), tool is undefined and reading tool.name
\* raises TypeError.
executeToolWith(params) ==
    LET tool == IF params.type = "object" THEN params.tool ELSE Undefined
    IN IF tool = Undefined
       THEN [threw |-> TRUE]
       ELSE [threw |-> FALSE, toolResult |-> executeTool(tool, params.session)]

\* seeded fault: the executor is given the grade_quiz request and the
\* session as one object
submitQuiz_PassesTool(loaded, quizId, answers) ==
    IF loaded = Undefined THEN [ok |-> FALSE, error |-> "NotFound"]
    ELSE LET call == executeToolWith([type |-> "object",
                                      tool |-> [name |-> "grade_quiz",
                                                args |-> [quizId |-> quizId, answers |-> answers]],
                                      session |-> loaded])
         IN IF call.threw
            THEN [ok |-> FALSE, error |-> "InternalError"]
            ELSE IF ~call.toolResult.resultData.success
            THEN [ok |-> FALSE, error |-> "ToolFailure"]
            ELSE [ok |-> TRUE,
                  result |-> call.toolResult.resultData.data.quizResult,
                  session |-> applyToolResultToSession(loaded, "grade_quiz",
                                                       call.toolResult.resultData)]

\* SessionRouter.submitQuiz on the loaded record.  The router calls
\* executeTool('grade_quiz', {quizId, answers, sessionId}, {session}): the
\* executor's one parameter is bound to the string 'grade_quiz', the other
\* two values are dropped.  A raised error is caught and answered with
\* status 500, a failed result with 400, and a successful one is applied
\* and saved.
submitQuiz(loaded, quizId, answers) ==
    IF loaded = Undefined THEN [ok |-> FALSE, error |-> "NotFound"]
    ELSE LET call == executeToolWith([type |-> "string", value |-> "grade_quiz"])
         IN IF call.threw
            THEN [ok |-> FALSE, error |-> "InternalError"]
            ELSE IF ~call.toolResult.resultData.success
            THEN [ok |-> FALSE, error |-> "ToolFailure"]
            ELSE [ok |-> TRUE,
                  result |-> call.toolResult.resultData.data.quizResult,
                  session |-> applyToolResultToSession(loaded, "grade_quiz",
                                                       call.toolResult.resultData)]

(***************************************************************************)
(* Inputs the model draws                                                  *)
(***************************************************************************)
SessionIds == {"s1"}                    \* ids crypto.randomUUID() hands out
RequestIds == SessionIds                \* an id is unknown until it is handed out
LevelIds == {"A1", "A2"}
ScenarioIds == {"taxi", "cafe", "nope"}
QuizIds == {"q1", "q9"}                 \* "q9" is not in the content pack

TextAl == <<"A", "l", ".">>             \* "Al."
TextNo == <<"n", "o">>                  \* "no"
CorrectionAl == <<"A", "l", "!">>       \* "Al!"
UserTexts == {TextAl, TextNo}
\* Without a pending retry the learner text is only copied into the
\* transcript, so one text stands for all; with one, the learner either
\* repeats the expected phrase or does not.
LearnerTexts(loaded) ==
    IF loaded # Undefined /\ loaded.pendingRetry # Undefined THEN UserTexts ELSE {TextNo}

MarkCompleteRequest == [name |-> "mark_complete", args |-> [summary |-> <<"Great work">>]]

ToolRequests ==
    { [name |-> "start_quiz", args |-> [quizId |-> "q1"]],
      [name |-> "start_quiz", args |-> [quizId |-> "q9"]],
      [name |-> "grade_quiz", args |-> [quizId |-> "q1", answers |-> <<0, -1>>]],
      [name |-> "grade_quiz", args |-> [quizId |-> "q1", answers |-> <<0>>]],
      [name |-> "get_hint", args |-> [topic |-> NoId]],
      [name |-> "log_mistake", args |-> [original |-> TextNo, corrected |-> CorrectionAl,
                                         type |-> NoId]],
      MarkCompleteRequest }

IsPlain(raw) == ~raw.isMistake /\ ~raw.shouldRetry /\ raw.correction = NoText
IsMistakeRetry(raw) == raw.isMistake /\ raw.shouldRetry /\ raw.correction = CorrectionAl

\* JSON objects the decision collaborator may answer with: every flag and
\* correction combination without a tool, every tool with the plain and the
\* mistake-and-retry flags, a nextPhase on otherwise plain decisions, and an
\* empty reply.
RawOutputs ==
    { raw \in [feedback : {<<"fb">>},
               correction : {NoText, <<" ">>, CorrectionAl},
               isMistake : BOOLEAN,
               shouldRetry : BOOLEAN,
               nextPhase : {NoId, "quiz", "completed"},
               tool : {NullTool} \cup ToolRequests,
               reply : {<<"reply">>, <<>>}] :
        \/ raw.tool = NullTool /\ raw.nextPhase = NoId /\ raw.reply # <<>>
        \/ raw.nextPhase = NoId /\ raw.reply # <<>> /\ (IsPlain(raw) \/ IsMistakeRetry(raw))
        \/ raw.tool = NullTool /\ IsPlain(raw) /\ raw.reply # <<>>
        \/ raw.tool = NullTool /\ IsPlain(raw) /\ raw.nextPhase = NoId }

NoResponse == [kind |-> "none"]
LlmResponses == {[kind |-> "throw"]} \cup {[kind |-> "output", raw |-> raw] : raw \in RawOutputs}

\* the answers used to follow one pending retry to its end: decisions
\* without a tool that ask for a retry or do not, and a failed call
RetryLlmResponses ==
    {[kind |-> "throw"]} \cup
    { [kind |-> "output", raw |-> raw] :
        raw \in { r \in RawOutputs :
                    /\ r.tool = NullTool /\ r.nextPhase = NoId /\ r.reply # <<>>
                    /\ (IsPlain(r) \/ (r.shouldRetry /\ r.correction = CorrectionAl)) } }

\* plain decisions carrying each tool request, or none
\* (grade_quiz also with a second, fully right answer array)
RegradeRequest == [name |-> "grade_quiz", args |-> [quizId |-> "q1", answers |-> <<0, 1>>]]
ToolLlmResponses ==
    { [kind |-> "output", raw |-> raw] :
        raw \in { r \in RawOutputs : IsPlain(r) /\ r.nextPhase = NoId /\ r.reply # <<>> } }
    \cup
    { [kind |-> "output",
       raw |-> [feedback |-> <<"fb">>, correction |-> NoText, isMistake |-> FALSE,
                shouldRetry |-> FALSE, nextPhase |-> NoId, tool |-> RegradeRequest,
                reply |-> <<"reply">>]],
      [kind |-> "output",       \* a mistake flagged without a retry and without a tool
       raw |-> [feedback |-> <<"fb">>, correction |-> NoText, isMistake |-> TRUE,
                shouldRetry |-> FALSE, nextPhase |-> NoId, tool |-> NullTool,
                reply |-> <<"reply">>]] }

\* plain decisions that start the quiz or log a mistake
SetupLlmResponses ==
    { resp \in ToolLlmResponses : resp.raw.tool.name \in {"start_quiz", "log_mistake"} }

\* tool requests for direct calls of the executor: the requests the decisions
\* carry, and grade_quiz against each quiz of the content pack with every
\* array of its length over the answer values (-1 is a skipped question;
\* for the eight-item quiz, one array for each number of right answers),
\* arrays with an entry below or above the range, and arrays of another
\* length; and against an unknown quiz
AnswerValues == -1 .. 2
OutOfRangeArrays ==
    { <<-2, 0>>, <<0, 3>>, <<-2, 0, 0>>, <<0, 3, 0>>, <<0, 1, 3>>, <<0, 1, -2>> }
OtherLengthArrays == { <<>>, <<0>>, <<0, 1>>, <<0, 1, 2>>, <<0, 1, 2, 0>> }
AnswerArrays(quizId) ==
    IF getQuizById(quizId) = Undefined THEN { <<0, 1>>, <<0, 1, 2>> }
    ELSE IF quizId = "q8"       \* the first k answers right, the rest skipped
    THEN { [i \in 1..8 |-> IF i <= k THEN 0 ELSE -1] : k \in 0..8 }
    ELSE [1..Len(getQuizById(quizId).items) -> AnswerValues]
            \cup { a \in OutOfRangeArrays : Len(a) = Len(getQuizById(quizId).items) }
            \cup { a \in OtherLengthArrays : Len(a) # Len(getQuizById(quizId).items) }
\* topics asked of get_hint: absent, empty, in the table (also capitalised)
\* and not in the table
HintTopics == {NoId, "", "greeting", "Greeting", "food", "weather"}
DirectToolRequests ==
    ToolRequests \cup
    { [name |-> "get_hint", args |-> [topic |-> topic]] : topic \in HintTopics } \cup
    UNION { { [name |-> "grade_quiz", args |-> [quizId |-> q, answers |-> a]] :
                a \in AnswerArrays(q) } : q \in {"q1", "q3", "q8", "q9"} }

\* results that report failure, with and without data
FailedResults ==
    { [success |-> FALSE, message |-> <<"failed">>, data |-> Undefined],
      [success |-> FALSE, message |-> <<"failed">>,
       data |-> [activeQuiz |-> [quizId |-> "q1"],
                 quizResult |-> [quizId |-> "q1", score |-> 100, total |-> 2,
                                 answers |-> <<0, 1>>],
                 mistake |-> [type |-> "general", original |-> TextNo,
                              corrected |-> CorrectionAl],
                 completion |-> [summary |-> <<"done">>]]] }

\* what the narration collaborator does: the call throws, answers non-2xx,
\* fails in fetch, or answers with a JSON object (whose "tool" the engine
\* never reads)
NarrationResponses ==
    { [kind |-> "throw"], [kind |-> "http_error"], [kind |-> "fetch_error"],
      [kind |-> "output", reply |-> <<"narration">>, tool |-> NullTool],
      [kind |-> "output", reply |-> <<"narration">>, tool |-> MarkCompleteRequest],
      [kind |-> "output", reply |-> NoText, tool |-> NullTool] }
Durations == {0, 1}                     \* rounded milliseconds a measured step took
SubmittedAnswers == { <<0, 1>>, <<0>> }

(***************************************************************************)
(* State machine: one action per engine call                               *)
(***************************************************************************)
Load(sid) == IF sid \in DOMAIN storage THEN storage[sid] ELSE Undefined

Save(session) ==
    [id \in DOMAIN storage \cup {session.id} |->
        IF id = session.id THEN session ELSE storage[id]]

\* Where every call runs to its end before the next one starts, no call is
\* ever suspended and no two calls hold the same object
NoObjects == [obj |-> << >>, ref |-> << >>]
NoCalls == << >>

Init ==
    /\ storage = << >>
    /\ llmCalls = 0
    /\ last = [op |-> "none"]
    /\ heap = NoObjects
    /\ inflight = NoCalls

\* SessionEngine.createSession(levelId, scenarioId) with a fresh id, and the
\* storage create of its result
StartRequest ==
    \E levelId \in LevelIds, scenarioId \in ScenarioIds, sid \in SessionIds :
        /\ sid \notin DOMAIN storage
        /\ LET r == createSession(sid, levelId, scenarioId) IN
           /\ storage' = IF r.ok THEN Save(r.session) ELSE storage
           /\ last' = [op |-> "createSession", sid |-> sid, ok |-> r.ok,
                       error |-> IF r.ok THEN "" ELSE r.error, before |-> Undefined,
                       levelId |-> levelId, scenarioId |-> scenarioId]
        /\ UNCHANGED <<llmCalls, heap, inflight>>

\* the collaborator and clock behaviour a turn can observe: irrelevant
\* inputs (a step that is never reached) are pinned to one value
ReachesDecision(loaded, userText) ==
    /\ TurnPrecondition(loaded) = ""
    /\ RetryGate(loaded.pendingRetry, userText).kind # "nudge"

DecisionOf(llm) ==
    IF generateTeacherDecision(llm).threw THEN createFallbackDecision
    ELSE generateTeacherDecision(llm).decision

ReachesNarration(loaded, llm, toolThrows) ==
    /\ DecisionOf(llm).tool # NullTool
    /\ ~toolThrows
    /\ executeTool(DecisionOf(llm).tool, loaded).toolName \in narrationTools
    /\ executeTool(DecisionOf(llm).tool, loaded).resultData.success

\* POST /api/session/turn -> SessionEngine.processTurn, with the decision
\* collaborator answering from responses, the narration collaborator from
\* narrations, and at most maxCalls decision calls; observeNarration says
\* whether the narration collaborator's answer is kept in the observation
Turn(responses, narrations, maxCalls, observeNarration) ==
    \E sid \in RequestIds :
    \E userText \in LearnerTexts(Load(sid)) :
    /\ ReachesDecision(Load(sid), userText) => llmCalls < maxCalls
    /\ \E llm \in IF ReachesDecision(Load(sid), userText) THEN responses ELSE {NoResponse} :
       \E llmElapsed \in IF llm # NoResponse THEN Durations ELSE {0} :
       \E toolThrows \in IF llm # NoResponse /\ DecisionOf(llm).tool # NullTool
                         THEN BOOLEAN ELSE {FALSE} :
       \E toolElapsed \in IF llm # NoResponse /\ DecisionOf(llm).tool # NullTool
                          THEN Durations ELSE {0} :
       \E narration \in IF llm # NoResponse /\ ReachesNarration(Load(sid), llm, toolThrows)
                        THEN narrations ELSE {NoResponse} :
           \E loaded \in {Load(sid)} :
           \E r \in {processTurn(loaded, userText, llm, toolThrows, narration,
                                 llmElapsed, toolElapsed)} :
           /\ storage' = IF r.ok THEN Save(r.session) ELSE storage
           /\ llmCalls' = llmCalls + r.llmInvocations
           /\ last' = IF r.ok
                      THEN [op |-> "processTurn", sid |-> sid, ok |-> TRUE, error |-> "",
                            before |-> loaded, userText |-> userText,
                            llmMs |-> r.llmMs, toolMs |-> r.toolMs,
                            gate |-> r.gate, llmInvocations |-> r.llmInvocations,
                            llmOutcome |-> r.llmOutcome, decision |-> r.decision,
                            toolCalls |-> r.toolCalls, toolStatus |-> r.toolStatus,
                            narrationCalls |-> r.narrationCalls,
                            narration |-> IF observeNarration THEN narration ELSE NoResponse]
                      ELSE [op |-> "processTurn", sid |-> sid, ok |-> FALSE, error |-> r.error,
                            before |-> loaded,
                            llmInvocations |-> r.llmInvocations, toolCalls |-> r.toolCalls,
                            narrationCalls |-> r.narrationCalls]
           /\ UNCHANGED <<heap, inflight>>

TurnRequest == Turn(LlmResponses, NarrationResponses, MaxLlmCalls, FALSE)

RetryTurnRequest == Turn(RetryLlmResponses, NarrationResponses, MaxRetryLlmCalls, FALSE)

\* turns whose decision is plain and carries one of the tools (or none),
\* with the narration collaborator's answer observed
NarratedTurnRequest == Turn(ToolLlmResponses, NarrationResponses, MaxNarratedLlmCalls, TRUE)

\* turns that put a session into the states the tools are then called on
ToolTurnRequest == Turn(SetupLlmResponses, {[kind |-> "fetch_error"]}, MaxToolLlmCalls, FALSE)

\* executeTool and applyToolResultToSession called on a stored session with
\* a tool request; nothing is saved
ToolCall ==
    \E sid \in DOMAIN storage, tool \in DirectToolRequests :
    \E toolResult \in {executeTool(tool, storage[sid])} :
        /\ last' = [op |-> "executeTool", sid |-> sid, before |-> storage[sid],
                    tool |-> tool, toolResult |-> toolResult,
                    applied |-> applyToolResultToSession(storage[sid], toolResult.toolName,
                                                         toolResult.resultData)]
        /\ UNCHANGED <<storage, llmCalls, heap, inflight>>

\* applyToolResultToSession called on a stored session with a result that
\* reports failure; nothing is saved
ApplyCall ==
    \E sid \in DOMAIN storage, toolName \in ToolNames, resultData \in FailedResults :
        /\ last' = [op |-> "applyToolResultToSession", sid |-> sid, before |-> storage[sid],
                    toolName |-> toolName, resultData |-> resultData,
                    applied |-> applyToolResultToSession(storage[sid], toolName, resultData)]
        /\ UNCHANGED <<storage, llmCalls, heap, inflight>>

\* POST /api/session/end -> SessionRouter.endSession
EndRequest ==
    \E sid \in RequestIds :
        LET loaded == Load(sid)
            r == endSessionHandler(loaded)
        IN
        /\ storage' = IF r.ok THEN Save(r.session) ELSE storage
        /\ last' = [op |-> "endSession", sid |-> sid, ok |-> r.ok,
                    error |-> IF r.ok THEN "" ELSE r.error, before |-> loaded,
                    summary |-> IF r.ok THEN r.summary ELSE Undefined]
        /\ UNCHANGED <<llmCalls, heap, inflight>>

\* SessionEngine.endSession called directly (no handler in src calls it)
EndSessionCall ==
    \E sid \in RequestIds :
        LET loaded == Load(sid)
            r == endSession(loaded)
        IN
        /\ storage' = IF r.ok THEN Save(r.session) ELSE storage
        /\ last' = [op |-> "SessionEngine.endSession", sid |-> sid, ok |-> r.ok,
                    error |-> IF r.ok THEN "" ELSE r.error, before |-> loaded,
                    summary |-> IF r.ok THEN r.summary ELSE Undefined]
        /\ UNCHANGED <<llmCalls, heap, inflight>>

\* POST /api/quiz/submit -> SessionRouter.submitQuiz
QuizSubmitRequest ==
    \E sid \in RequestIds, quizId \in QuizIds, answers \in SubmittedAnswers :
        LET loaded == Load(sid)
            r == submitQuiz(loaded, quizId, answers)
        IN
        /\ storage' = IF r.ok THEN Save(r.session) ELSE storage
        /\ last' = IF r.ok
                   THEN [op |-> "submitQuiz", sid |-> sid, ok |-> TRUE, error |-> "",
                         before |-> loaded, quizId |-> quizId, answers |-> answers,
                         result |-> r.result]
                   ELSE [op |-> "submitQuiz", sid |-> sid, ok |-> FALSE, error |-> r.error,
                         before |-> loaded, quizId |-> quizId, answers |-> answers]
        /\ UNCHANGED <<llmCalls, heap, inflight>>

Next ==
    \/ StartRequest
    \/ TurnRequest
    \/ EndRequest
    \/ QuizSubmitRequest

Spec == Init /\ [][Next]_vars

\* one session followed through its retries: sessions are created and
\* turns are taken, the decision collaborator answering without tools
NextRetry ==
    \/ StartRequest
    \/ RetryTurnRequest

SpecRetry == Init /\ [][NextRetry]_vars

\* sessions followed through their turns with tools, the narration call
\* observed, and through quiz submission and ending
NextNarrated ==
    \/ StartRequest
    \/ NarratedTurnRequest
    \/ EndRequest
    \/ QuizSubmitRequest

SpecNarrated == Init /\ [][NextNarrated]_vars

\* the executor and the applier called directly on the sessions that
\* starting, turns, quiz submission and ending produce
NextTools ==
    \/ StartRequest
    \/ ToolTurnRequest
    \/ EndRequest
    \/ QuizSubmitRequest
    \/ ToolCall
    \/ ApplyCall
    \/ EndSessionCall

SpecTools == Init /\ [][NextTools]_vars

\* ---------------------------------------------------------------------
\* The normalizer on its own: normalizeForExactMatch and isExactMatch are
\* pure functions of their texts, so their claims are checked over every
\* text of up to MaxTextLen characters of a small alphabet.

MaxTextLen == 4

\* one lower-case and one upper-case letter, both kinds of whitespace, one
\* character of the stripped punctuation set and one outside it
NormalizerAlphabet == {"a", "A", " ", "\t", ".", "¡"}

NormalizerTexts == UNION {[1 .. n -> NormalizerAlphabet] : n \in 0 .. MaxTextLen}

\* the texts a learner's answer is compared with (pendingRetry.expected)
ExpectedTexts == {<<"a">>, <<"a", " ", "a">>, <<"a", ".", "a">>, <<"¡", "a">>}

InitNormalizer ==
    /\ storage = << >>
    /\ llmCalls = 0
    /\ heap = NoObjects
    /\ inflight = NoCalls
    /\ \E text1 \in NormalizerTexts, text2 \in ExpectedTexts :
          last = [op |-> "texts", text1 |-> text1, text2 |-> text2]

\* normalizeForExactMatch(text) on the learner's text, or on the result of
\* the previous normalization (normalized at most once more)
NormalizeCall ==
    /\ last.op \in {"texts", "normalizeForExactMatch"}
    /\ last.op = "normalizeForExactMatch" => last.text = last.text1
    /\ LET text == IF last.op = "texts" THEN last.text1 ELSE last.result
       IN last' = [op |-> "normalizeForExactMatch",
                   text1 |-> last.text1, text2 |-> last.text2,
                   text |-> text, result |-> normalizeForExactMatch(text)]
    /\ UNCHANGED <<storage, llmCalls, heap, inflight>>

\* isExactMatch(text1, text2)
MatchCall ==
    /\ last.op = "texts"
    /\ last' = [op |-> "isExactMatch",
                text1 |-> last.text1, text2 |-> last.text2,
                result |-> isExactMatch(last.text1, last.text2)]
    /\ UNCHANGED <<storage, llmCalls, heap, inflight>>

NextNormalizer ==
    \/ NormalizeCall
    \/ MatchCall

SpecNormalizer == InitNormalizer /\ [][NextNormalizer]_vars

\* ---------------------------------------------------------------------
\* Interleaved calls.  A handler runs until it awaits; while it waits for
\* the storage or for the tutor model, handlers of other requests run.
\* InMemorySessionStorage keeps object references: load returns the object
\* the Map holds (Map.get runs when load is called, the caller continues
\* after the await), save puts the given object into the Map (Map.set runs
\* when save is called).  processTurn builds new objects ({...session});
\* SessionRouter.endSession assigns session.phase on the object it loaded.

MaxInterleavedLlmCalls == 2

Callers == {"c1", "c2"}
InterleavedSessionIds == {"s1", "s2"}

\* the tutor model's answers: a plain decision without a tool and one that
\* starts the quiz
InterleavedLlmResponses ==
    { resp \in ToolLlmResponses :
        /\ IsPlain(resp.raw)
        /\ \/ resp.raw.tool = NullTool
           \/ resp.raw.tool = [name |-> "start_quiz", args |-> [quizId |-> "q1"]] }

InterleavedNarrations == { [kind |-> "fetch_error"] }

Idle == [pc |-> "idle"]
Free(c) == inflight[c].pc \in {"idle", "done"}

\* a new object; it gets the lowest number not in use
NewId(h) ==
    CHOOSE i \in 1 .. Cardinality(DOMAIN h.obj) + 1 :
        i \notin DOMAIN h.obj /\ \A j \in 1 .. i - 1 : j \in DOMAIN h.obj
Allocate(h, session) ==
    [h EXCEPT !.obj = [i \in DOMAIN h.obj \cup {NewId(h)} |->
                          IF i = NewId(h) THEN session ELSE h.obj[i]]]

\* objects that neither the Map nor a caller refers to are garbage
Collect(h, calls) ==
    LET live == {h.ref[id] : id \in DOMAIN h.ref}
                \cup {calls[c].obj : c \in {d \in DOMAIN calls : calls[d].pc # "idle"}}
                \cup {calls[c].saved : c \in {d \in DOMAIN calls : calls[d].pc = "done"}}
    IN [h EXCEPT !.obj = [i \in live \cap DOMAIN h.obj |-> h.obj[i]]]

\* seeded fault: the Map has one slot for all sessions
MapSet_OneSlot(h, key, index) ==
    [h EXCEPT !.ref = [id \in DOMAIN h.ref \cup {key} |-> index]]

\* this.sessions.set(key, object)
MapSet(h, key, index) ==
    [h EXCEPT !.ref = [id \in DOMAIN h.ref \cup {key} |->
                          IF id = key THEN index ELSE h.ref[id]]]

\* this.sessions.get(key) ?? null  (0 stands for null)
MapGet(h, key) == IF key \in DOMAIN h.ref THEN h.ref[key] ELSE 0

\* the Map read by value: session id -> SessionState
Contents(h) == [id \in DOMAIN h.ref |-> h.obj[h.ref[id]]]

\* save of an object built by a spread
SaveNew(h, session) == MapSet(Allocate(h, session), session.id, NewId(h))

\* seeded fault: the call reads the stored record again instead of the
\* object it loaded
Held_Reloads(h, call) ==
    IF call.obj = 0 THEN Undefined ELSE h.obj[h.ref[call.sid]]

\* the session object a suspended call holds in its local variable, as it
\* is now
Held(h, call) == IF call.obj = 0 THEN Undefined ELSE h.obj[call.obj]

InitInterleaved ==
    /\ storage = << >>
    /\ llmCalls = 0
    /\ last = [op |-> "none"]
    /\ heap = NoObjects
    /\ inflight = [c \in Callers |-> Idle]

\* SessionEngine.createSession: it awaits only storage.create, at its end
CreateCall ==
    \E sid \in InterleavedSessionIds :
        /\ sid \notin DOMAIN heap.ref
        /\ LET r == createSession(sid, "A1", "taxi") IN
           /\ r.ok
           /\ heap' = Collect(SaveNew(heap, r.session), inflight)
           /\ storage' = Contents(heap')
        /\ UNCHANGED <<llmCalls, last, inflight>>

\* a handler is entered and calls storage.load: what the caller holds then
Loaded(c, op, sid) ==
    [inflight EXCEPT ![c] = [pc |-> "loaded", op |-> op, sid |-> sid,
                             obj |-> MapGet(heap, sid)]]

BeginTurn(c) ==
    /\ Free(c)
    /\ llmCalls < MaxInterleavedLlmCalls
    /\ \E sid \in InterleavedSessionIds : inflight' = Loaded(c, "processTurn", sid)
    /\ heap' = Collect(heap, inflight')
    /\ UNCHANGED <<storage, llmCalls, last>>

BeginEnd(c) ==
    /\ Free(c)
    /\ \E sid \in InterleavedSessionIds : inflight' = Loaded(c, "endSession", sid)
    /\ heap' = Collect(heap, inflight')
    /\ UNCHANGED <<storage, llmCalls, last>>

BeginSubmit(c) ==
    /\ Free(c)
    /\ \E sid \in InterleavedSessionIds : inflight' = Loaded(c, "submitQuiz", sid)
    /\ heap' = Collect(heap, inflight')
    /\ UNCHANGED <<storage, llmCalls, last>>

\* the call has returned
Returned(c) == [inflight EXCEPT ![c] = Idle]

\* a turn has saved and returned: the caller keeps which object the turn had
\* loaded and which one it saved
TurnSaved(c, savedObj) ==
    [inflight EXCEPT ![c] = [pc |-> "done", op |-> "processTurn", sid |-> inflight[c].sid,
                             obj |-> inflight[c].obj, saved |-> savedObj]]

\* processTurn after load: the phase check and the retry gate, then either
\* the local retry answer (saved at once) or the request to the tutor model
TurnDecide(c) ==
    /\ inflight[c].pc = "loaded" /\ inflight[c].op = "processTurn"
    /\ LET session == Held(heap, inflight[c])
           userMessage == [role |-> "user", text |-> TextNo]
       IN
       IF TurnPrecondition(session) # ""
       THEN /\ inflight' = Returned(c)
            /\ heap' = Collect(heap, inflight')
            /\ UNCHANGED <<storage, llmCalls, last>>
       ELSE IF RetryGate(session.pendingRetry, TextNo).kind = "nudge"
       THEN /\ inflight' = TurnSaved(c, NewId(heap))
            /\ heap' = Collect(SaveNew(heap,
                         NudgeTurn(session, userMessage,
                                   RetryGate(session.pendingRetry, TextNo),
                                   getPersonaById(getScenarioById(session.scenarioId).personaId))),
                               inflight')
            /\ storage' = Contents(heap')
            /\ UNCHANGED <<llmCalls, last>>
       ELSE /\ llmCalls < MaxInterleavedLlmCalls
            /\ llmCalls' = llmCalls + 1
            /\ inflight' = [inflight EXCEPT ![c].pc = "llm"]
            /\ UNCHANGED <<storage, last, heap>>

\* processTurn from the tool step to the save, on the session `base'
TurnFinish(c, base, llm, narration) ==
    LET step == ToolStep(base, DecisionOf(llm), FALSE, narration)
        saved == UpdatedSession(step.session,
                                [role |-> "user", text |-> TextNo],
                                [role |-> "tutor", text |-> step.tutorReply],
                                NewPendingRetry(step.finalDecision),
                                step.finalDecision)
    IN /\ inflight' = TurnSaved(c, NewId(heap))
       /\ heap' = Collect(SaveNew(heap, saved), inflight')
       /\ storage' = Contents(heap')
       /\ UNCHANGED <<llmCalls, last>>

\* the tutor model answers: the tool runs and is applied; the turn is saved
\* unless the tool's result is to be narrated first
TurnLlm(c) ==
    /\ inflight[c].pc = "llm"
    /\ \E llm \in InterleavedLlmResponses :
       \E session \in {Held(heap, inflight[c])} :
          IF ReachesNarration(session, llm, FALSE)
          THEN /\ inflight' = [inflight EXCEPT ![c] =
                                  [pc |-> "narration", op |-> "processTurn",
                                   sid |-> inflight[c].sid, obj |-> inflight[c].obj,
                                   base |-> session, llm |-> llm]]
               /\ UNCHANGED <<storage, llmCalls, last, heap>>
          ELSE TurnFinish(c, session, llm, NoResponse)

\* the narration call returns
TurnNarrated(c) ==
    /\ inflight[c].pc = "narration"
    /\ \E narration \in InterleavedNarrations :
          TurnFinish(c, inflight[c].base, inflight[c].llm, narration)

\* SessionRouter.endSession after load: phase is assigned on the loaded
\* object and that object is saved
EndFinish(c) ==
    /\ inflight[c].pc = "loaded" /\ inflight[c].op = "endSession"
    /\ inflight' = Returned(c)
    /\ LET r == endSessionHandler(Held(heap, inflight[c])) IN
       heap' = IF r.ok
               THEN Collect(MapSet([heap EXCEPT !.obj[inflight[c].obj] = r.session],
                                   inflight[c].sid, inflight[c].obj),
                            inflight')
               ELSE Collect(heap, inflight')
    /\ storage' = Contents(heap')
    /\ UNCHANGED <<llmCalls, last>>

\* SessionRouter.submitQuiz after load
SubmitFinish(c) ==
    /\ inflight[c].pc = "loaded" /\ inflight[c].op = "submitQuiz"
    /\ inflight' = Returned(c)
    /\ LET r == submitQuiz(Held(heap, inflight[c]), "q1", <<0, 1>>) IN
       heap' = IF r.ok
               THEN Collect(SaveNew(heap, r.session), inflight')
               ELSE Collect(heap, inflight')
    /\ storage' = Contents(heap')
    /\ UNCHANGED <<llmCalls, last>>

NextInterleaved ==
    \/ CreateCall
    \/ \E c \in Callers : BeginTurn(c)
    \/ \E c \in Callers : BeginEnd(c)
    \/ \E c \in Callers : BeginSubmit(c)
    \/ \E c \in Callers : TurnDecide(c)
    \/ \E c \in Callers : TurnLlm(c)
    \/ \E c \in Callers : TurnNarrated(c)
    \/ \E c \in Callers : EndFinish(c)
    \/ \E c \in Callers : SubmitFinish(c)

SpecInterleaved == InitInterleaved /\ [][NextInterleaved]_vars


(***************************************************************************)
(* The worker's request router: routeRequest constructs a SessionRouter    *)
(* for the request it is handling, and the router, constructed without a   *)
(* storage argument, constructs its own empty InMemorySessionStorage.      *)
(* storage is the store of the router of the latest request; the routers   *)
(* of earlier requests are referenced by nothing once they have answered.  *)
(* last.issued is what the client holds: the ids of the sessions that      *)
(* successful start requests returned.                                     *)
(***************************************************************************)
\* new SessionRouter(): this.storage = storage ?? new InMemorySessionStorage()
NewSessionRouter == << >>

LoadFrom(store, sid) == IF sid \in DOMAIN store THEN store[sid] ELSE Undefined

SaveTo(store, session) ==
    [id \in DOMAIN store \cup {session.id} |->
        IF id = session.id THEN session ELSE store[id]]

\* SessionRouter.startSession: the body's fields are destructured by name
\* and handed to createSession(levelId, scenarioId) by position, scenarioId
\* first
startSession(sessionId, body) ==
    createSession(sessionId, body.scenarioId, body.levelId)

\* SessionRouter.getSession
getSession(loaded) ==
    IF loaded = Undefined THEN [ok |-> FALSE, error |-> "NotFound"]
    ELSE [ok |-> TRUE, session |-> loaded]

\* the strings a start body carries: StartSessionRequestSchema accepts any
\* two non-empty strings
WorkerSessionIds == {"s1", "s2"}
BodyStrings == LevelIds \cup ScenarioIds
StartBodies == [levelId : BodyStrings, scenarioId : BodyStrings]

InitWorker ==
    /\ storage = NewSessionRouter
    /\ llmCalls = 0
    /\ last = [op |-> "none", issued |-> {}]
    /\ heap = NoObjects
    /\ inflight = NoCalls

\* POST /api/session/start
RouteStart ==
    \E body \in StartBodies, sid \in WorkerSessionIds \ last.issued :
    \E router \in {NewSessionRouter} :
    \E r \in {startSession(sid, body)} :
        /\ storage' = IF r.ok THEN SaveTo(router, r.session) ELSE router
        /\ last' = [op |-> "POST /api/session/start", ok |-> r.ok,
                    error |-> IF r.ok THEN "" ELSE r.error, body |-> body,
                    session |-> IF r.ok THEN r.session ELSE Undefined,
                    issued |-> IF r.ok THEN last.issued \cup {sid} ELSE last.issued]
        /\ UNCHANGED <<llmCalls, heap, inflight>>

\* POST /api/session/turn
RouteTurn ==
    \E sid \in WorkerSessionIds, userText \in UserTexts :
    \E router \in {NewSessionRouter} :
    \E loaded \in {LoadFrom(router, sid)} :
    \E llm \in IF ReachesDecision(loaded, userText) THEN LlmResponses ELSE {NoResponse} :
    \E r \in {processTurn(loaded, userText, llm, FALSE, [kind |-> "fetch_error"], 0, 0)} :
        /\ ReachesDecision(loaded, userText) => llmCalls < MaxLlmCalls
        /\ storage' = IF r.ok THEN SaveTo(router, r.session) ELSE router
        /\ llmCalls' = llmCalls + r.llmInvocations
        /\ last' = [op |-> "POST /api/session/turn", sid |-> sid, ok |-> r.ok,
                    error |-> IF r.ok THEN "" ELSE r.error, userText |-> userText,
                    issued |-> last.issued]
        /\ UNCHANGED <<heap, inflight>>

\* POST /api/session/end
RouteEnd ==
    \E sid \in WorkerSessionIds :
    \E router \in {NewSessionRouter} :
    \E r \in {endSessionHandler(LoadFrom(router, sid))} :
        /\ storage' = IF r.ok THEN SaveTo(router, r.session) ELSE router
        /\ last' = [op |-> "POST /api/session/end", sid |-> sid, ok |-> r.ok,
                    error |-> IF r.ok THEN "" ELSE r.error, issued |-> last.issued]
        /\ UNCHANGED <<llmCalls, heap, inflight>>

\* POST /api/quiz/submit
RouteSubmit ==
    \E sid \in WorkerSessionIds, quizId \in QuizIds, answers \in SubmittedAnswers :
    \E router \in {NewSessionRouter} :
    \E r \in {submitQuiz(LoadFrom(router, sid), quizId, answers)} :
        /\ storage' = IF r.ok THEN SaveTo(router, r.session) ELSE router
        /\ last' = [op |-> "POST /api/quiz/submit", sid |-> sid, ok |-> r.ok,
                    error |-> IF r.ok THEN "" ELSE r.error, quizId |-> quizId,
                    answers |-> answers, issued |-> last.issued]
        /\ UNCHANGED <<llmCalls, heap, inflight>>

\* GET /api/session/:id
RouteGet ==
    \E sid \in WorkerSessionIds :
    \E router \in {NewSessionRouter} :
    \E r \in {getSession(LoadFrom(router, sid))} :
        /\ storage' = router
        /\ last' = [op |-> "GET /api/session/:id", sid |-> sid, ok |-> r.ok,
                    error |-> IF r.ok THEN "" ELSE r.error, issued |-> last.issued]
        /\ UNCHANGED <<llmCalls, heap, inflight>>

NextWorker ==
    \/ RouteStart
    \/ RouteTurn
    \/ RouteEnd
    \/ RouteSubmit
    \/ RouteGet

SpecWorker == InitWorker /\ [][NextWorker]_vars

(***************************************************************************)
(* The transcript window of the decision call.  processTurn hands          *)
(* generateTeacherDecision the stored transcript, reduced to role and      *)
(* text, followed by the learner's message; generateTeacherDecision puts   *)
(* slice(-MAX_TRANSCRIPT_TURNS) of it into the prompt.  The window is a    *)
(* pure function of the transcript and the learner's text, so it is        *)
(* checked over stored transcripts of up to MaxWindowTurns turns.          *)
(***************************************************************************)
MAX_TRANSCRIPT_TURNS == 12

\* turns already taken in the stored transcript (two entries each, after
\* the scenario's initial message)
MaxWindowTurns == 7

\* Array.prototype.slice(start) of a mistaken sign: the first entries
slice_KeepsOldest(arr, start) ==
    SubSeq(arr, 1, IF -start < Len(arr) THEN -start ELSE Len(arr))

\* Array.prototype.slice(start): a negative start counts from the end
slice(arr, start) ==
    LET len == Len(arr)
        k == IF start < 0
             THEN (IF len + start > 0 THEN len + start ELSE 0)
             ELSE (IF start < len THEN start ELSE len)
    IN SubSeq(arr, k + 1, len)

\* session.transcript.map((msg) => ({ role: msg.role, text: msg.text }))
transcriptForApi(transcript) ==
    [i \in 1 .. Len(transcript) |->
        [role |-> transcript[i].role, text |-> transcript[i].text]]

\* params.transcript of the decision call
DecisionTranscript(transcript, userText) ==
    transcriptForApi(transcript) \o <<[role |-> "user", text |-> userText]>>

recentTranscript(transcript) == slice(transcript, -MAX_TRANSCRIPT_TURNS)

\* the tutor's reply of turn k, told apart by its number
ReplyDigits == <<"1", "2", "3", "4", "5", "6", "7", "8", "9">>
TutorReply(k) == <<"r", ReplyDigits[k]>>

\* a stored transcript: the initial message, then for every turn taken the
\* learner's text and the tutor's reply
StoredTranscript(scenario, learnerTexts) ==
    [i \in 1 .. 2 * Len(learnerTexts) + 1 |->
        IF i = 1 THEN [role |-> "tutor", text |-> scenario.initialMessage]
        ELSE IF i % 2 = 0 THEN [role |-> "user", text |-> learnerTexts[i \div 2]]
        ELSE [role |-> "tutor", text |-> TutorReply(i \div 2)]]

WindowTranscripts ==
    {StoredTranscript(scenario, learnerTexts) :
        scenario \in Scenarios,
        learnerTexts \in UNION {[1 .. n -> UserTexts] : n \in 0 .. MaxWindowTurns}}

InitWindow ==
    /\ storage = << >>
    /\ llmCalls = 0
    /\ heap = NoObjects
    /\ inflight = NoCalls
    /\ \E transcript \in WindowTranscripts, userText \in UserTexts :
          last = [op |-> "turn", transcript |-> transcript, userText |-> userText]

\* the window generateTeacherDecision builds for the turn
WindowCall ==
    /\ last.op = "turn"
    /\ last' = [op |-> "recentTranscript",
                transcript |-> last.transcript, userText |-> last.userText,
                result |-> recentTranscript(DecisionTranscript(last.transcript,
                                                               last.userText))]
    /\ UNCHANGED <<storage, llmCalls, heap, inflight>>

NextWindow == WindowCall

SpecWindow == InitWindow /\ [][NextWindow]_vars
(***************************************************************************)
(* Properties                                                              *)
(***************************************************************************)
PhaseRank(phase) ==
    CASE phase = "roleplay" -> 0
      [] phase = "quiz" -> 1
      [] phase = "completed" -> 2

LastIsTurn == last.op = "processTurn"
\* the most recent call was a processTurn on a stored session in roleplay
LastIsRoleplayTurn ==
    LastIsTurn /\ last.before # Undefined /\ last.before.phase = "roleplay"
Stored == storage[last.sid]
LastMessage(session) == session.transcript[Len(session.transcript)]

\* C1: whatever call was made last (createSession, processTurn, submitQuiz
\* or endSession), the stored phase of the session is not earlier on
\* roleplay -> quiz -> completed than the phase the call found.
C1_PhaseOnlyAdvances ==
    (last.op # "none" /\ last.before # Undefined) =>
        /\ last.sid \in DOMAIN storage
        /\ PhaseRank(last.before.phase) <= PhaseRank(Stored.phase)

\* a session in the quiz phase was ended and is completed
C1_Witness ==
    /\ last.op = "endSession" /\ last.ok
    /\ last.before.phase = "quiz"
    /\ Stored.phase = "completed"
    /\ Stored.activeQuiz # Undefined

\* C2: every processTurn on a stored session in roleplay succeeds and saves
\* the previous transcript followed by the learner message and one tutor
\* message, with turnCount one higher -- on the locally answered path, when
\* the decision call fails, when the tool fails or throws, and when the
\* narration call fails.
C2_TurnAlwaysAppendsTwo ==
    LastIsRoleplayTurn =>
        /\ last.ok
        /\ LET n == Len(last.before.transcript) IN
           /\ Len(Stored.transcript) = n + 2
           /\ SubSeq(Stored.transcript, 1, n) = last.before.transcript
           /\ Stored.transcript[n + 1] = [role |-> "user", text |-> last.userText]
           /\ Stored.transcript[n + 2].role = "tutor"
           /\ Len(Stored.transcript[n + 2].text) >= 1
        /\ Stored.turnCount = last.before.turnCount + 1

\* a turn whose tool raised: the decision's own reply is the tutor message
C2_Witness ==
    /\ LastIsRoleplayTurn /\ last.ok
    /\ last.toolStatus = "threw"
    /\ LastMessage(Stored) = [role |-> "tutor", text |-> last.decision.reply]
    /\ Stored.turnCount = last.before.turnCount + 1

\* C3: a processTurn for an id that is not stored, or for a session in quiz
\* or completed, fails with NotFound / InvalidPhase, calls neither the
\* decision collaborator nor a tool, and leaves the storage as it was.
C3_RejectedTurnChangesNothing ==
    [][ (last'.op = "processTurn"
           /\ last'.before = Load(last'.sid)
           /\ (last'.before = Undefined \/ last'.before.phase # "roleplay"))
        => /\ ~last'.ok
           /\ last'.error = (IF last'.before = Undefined THEN "NotFound" ELSE "InvalidPhase")
           /\ last'.llmInvocations = 0
           /\ last'.toolCalls = 0
           /\ llmCalls' = llmCalls
           /\ storage' = storage ]_vars

\* a turn was refused on a completed session that had taken turns before
C3_Witness ==
    /\ LastIsTurn /\ ~last.ok /\ last.error = "InvalidPhase"
    /\ last.before.phase = "completed"
    /\ last.before.turnCount >= 1
    /\ Stored = last.before

\* C4: with a pending retry, a learner text that does not normalize to the
\* expected phrase, and attempts + 1 < 3, the turn calls neither the decision
\* collaborator nor a tool, reports llmMs = 0 and toolMs = 0, appends the
\* locally generated retry message, and saves the pending retry with the same
\* expected phrase and attempts one higher.
C4_LocalNudge ==
    (/\ LastIsRoleplayTurn /\ last.ok
     /\ last.before.pendingRetry # Undefined
     /\ normalizeForExactMatch(last.userText)
            # normalizeForExactMatch(last.before.pendingRetry.expected)
     /\ last.before.pendingRetry.attempts + 1 < 3) =>
        /\ last.llmInvocations = 0
        /\ last.toolCalls = 0 /\ last.narrationCalls = 0
        /\ last.llmMs = 0 /\ last.toolMs = 0
        /\ LastMessage(Stored) =
              [role |-> "tutor",
               text |-> generateRetryMessage(
                            last.before.pendingRetry.expected,
                            last.before.pendingRetry.attempts + 1,
                            getPersonaById(getScenarioById(last.before.scenarioId).personaId))]
        /\ Stored.pendingRetry = [expected |-> last.before.pendingRetry.expected,
                                  attempts |-> last.before.pendingRetry.attempts + 1]
        /\ Stored.lastDecision = last.before.lastDecision

\* the second local answer in a row: attempts went from 1 to 2
C4_Witness ==
    /\ LastIsRoleplayTurn /\ last.ok
    /\ last.gate.kind = "nudge"
    /\ last.before.pendingRetry # Undefined
    /\ last.before.pendingRetry.attempts = 1
    /\ Stored.pendingRetry.attempts = 2

\* C5: from a pending retry with attempts 0, turns whose text does not match
\* take the attempt count to 1, then 2, then 3; the first two make no
\* decision call and save the count, the third makes exactly one.
C5_RetryEscalation ==
    (/\ LastIsRoleplayTurn /\ last.ok
     /\ last.before.pendingRetry # Undefined
     /\ normalizeForExactMatch(last.userText)
            # normalizeForExactMatch(last.before.pendingRetry.expected)) =>
        LET k == last.before.pendingRetry.attempts IN
        /\ k \in {0, 1, 2}
        /\ last.gate.pendingRetry = [expected |-> last.before.pendingRetry.expected,
                                     attempts |-> k + 1]
        /\ k < 2 => /\ last.llmInvocations = 0
                    /\ Stored.pendingRetry = last.gate.pendingRetry
        /\ k = 2 => last.llmInvocations = 1

\* the third non-matching turn in a row reached the decision call
C5_Witness ==
    /\ LastIsRoleplayTurn /\ last.ok
    /\ last.before.pendingRetry # Undefined
    /\ last.before.pendingRetry.attempts = 2
    /\ last.gate.kind = "escalate"
    /\ last.gate.pendingRetry.attempts = 3
    /\ last.llmInvocations = 1
    /\ last.before.turnCount >= 3

\* C6: with a pending retry and a learner text that normalizes to the
\* expected phrase, the turn clears the pending retry whatever its attempt
\* count, makes exactly one decision call and shows that decision's reply
\* (no local retry message); what is saved as pendingRetry comes from the
\* new decision alone.
C6_RetrySuccess ==
    (/\ LastIsRoleplayTurn /\ last.ok
     /\ last.before.pendingRetry # Undefined
     /\ normalizeForExactMatch(last.userText)
            = normalizeForExactMatch(last.before.pendingRetry.expected)) =>
        /\ last.gate.kind = "success"
        /\ last.gate.pendingRetry = Undefined
        /\ last.llmInvocations = 1
        /\ Stored.lastDecision = last.decision
        /\ LastMessage(Stored) = [role |-> "tutor", text |-> last.decision.reply]
        /\ Stored.pendingRetry \in { Undefined,
                                     [expected |-> last.decision.correction, attempts |-> 0] }
        /\ Stored.pendingRetry # Undefined => last.decision.shouldRetry

\* the learner typed "Al." for the expected "Al!" after two failed attempts
\* and the new decision asked for nothing more
C6_Witness ==
    /\ LastIsRoleplayTurn /\ last.ok
    /\ last.before.pendingRetry # Undefined
    /\ last.before.pendingRetry.attempts = 2
    /\ last.userText # last.before.pendingRetry.expected
    /\ last.gate.kind = "success"
    /\ Stored.pendingRetry = Undefined

\* C7 (as the specification states it): after a full-path turn the saved
\* pendingRetry is {expected: correction, attempts: 0} exactly when the
\* decision shown has isMistake and shouldRetry both true, and is unset
\* otherwise.
C7_PendingRetryIffMistakeAndRetry ==
    (LastIsRoleplayTurn /\ last.ok /\ last.llmInvocations = 1) =>
        IF Stored.lastDecision.isMistake /\ Stored.lastDecision.shouldRetry
        THEN Stored.pendingRetry = [expected |-> Stored.lastDecision.correction, attempts |-> 0]
        ELSE Stored.pendingRetry = Undefined

\* C8: when the decision call throws or its output fails the schema, the
\* turn succeeds with the fixed fallback decision: not a mistake, no retry,
\* no tool, the apology as reply; the tutor message is the apology, no tool
\* runs, turnCount is one higher, pendingRetry is unset and lastDecision is
\* the fallback.
C8_FallbackOnDecisionFailure ==
    (LastIsRoleplayTurn /\ last.ok /\ last.llmOutcome \in {"threw", "rejected"}) =>
        /\ last.decision.isMistake = FALSE
        /\ last.decision.shouldRetry = FALSE
        /\ last.decision.tool = NullTool
        /\ last.decision.reply = <<"Sorry-something glitched. Please try that again.">>
        /\ LastMessage(Stored) = [role |-> "tutor", text |-> last.decision.reply]
        /\ last.toolCalls = 0 /\ last.narrationCalls = 0
        /\ Stored.phase = last.before.phase
        /\ Stored.mistakes = last.before.mistakes
        /\ Stored.turnCount = last.before.turnCount + 1
        /\ Stored.pendingRetry = Undefined
        /\ Stored.lastDecision = last.decision

\* the decision output was rejected by the schema on the first turn of a
\* session
C8_Witness ==
    /\ LastIsRoleplayTurn /\ last.ok
    /\ last.llmOutcome = "rejected"
    /\ Stored.lastDecision = createFallbackDecision
    /\ Stored.turnCount = 1

\* C9: a turn calls the tool executor at most once, whatever the narration
\* collaborator answers; and whenever the executor returned a result, the
\* decision saved as lastDecision has no tool and the session is the result
\* of applying that one tool.
C9_AtMostOneTool ==
    (LastIsRoleplayTurn /\ last.ok) =>
        /\ last.toolCalls \in {0, 1}
        /\ last.narrationCalls <= last.toolCalls
        /\ last.toolStatus \in {"failed", "succeeded"} =>
              /\ last.toolCalls = 1
              /\ Stored.lastDecision.tool = NullTool
              /\ LET result == executeTool(last.decision.tool, last.before)
                     applied == applyToolResultToSession(last.before, result.toolName,
                                                         result.resultData)
                 IN /\ Stored.phase = applied.phase
                    /\ Stored.activeQuiz = applied.activeQuiz
                    /\ Stored.quizResult = applied.quizResult
                    /\ Stored.mistakes = applied.mistakes
                    /\ Stored.completion = applied.completion
        /\ last.toolStatus = "none" => last.toolCalls = 0

\* start_quiz ran and was narrated: the narration is the reply, the quiz is
\* active, and nothing else was applied
C9_Witness ==
    /\ LastIsRoleplayTurn /\ last.ok
    /\ last.toolStatus = "succeeded"
    /\ last.decision.tool.name = "start_quiz"
    /\ last.narrationCalls = 1
    /\ Stored.lastDecision.reply = <<"narration">>
    /\ Stored.lastDecision.tool = NullTool
    /\ Stored.phase = "quiz"
    /\ Stored.completion = Undefined

\* the decision of the last turn carries start_quiz for a quiz of the
\* content pack, or mark_complete
CarriesPhaseTool(decision) ==
    /\ decision # Undefined
    /\ decision.tool # NullTool
    /\ \/ decision.tool.name = "start_quiz" /\ getQuizById(decision.tool.args.quizId) # Undefined
       \/ decision.tool.name = "mark_complete"

\* C10: a turn whose tool executor does not raise changes the phase exactly
\* when its decision carries start_quiz with a known quiz id (phase quiz,
\* activeQuiz.quizId that id) or mark_complete (phase completed,
\* completion.summary the given summary); nextPhase and the other tools
\* leave the phase alone.
C10_PhaseChangesOnlyByTool ==
    (LastIsRoleplayTurn /\ last.ok /\ last.toolStatus # "threw") =>
        /\ (Stored.phase # last.before.phase) <=> CarriesPhaseTool(last.decision)
        /\ CarriesPhaseTool(last.decision) =>
              IF last.decision.tool.name = "start_quiz"
              THEN /\ Stored.phase = "quiz"
                   /\ Stored.activeQuiz.quizId = last.decision.tool.args.quizId
              ELSE /\ Stored.phase = "completed"
                   /\ Stored.completion.summary = last.decision.tool.args.summary

\* a valid decision named completed as its next phase and the phase stayed
C10_Witness ==
    /\ LastIsRoleplayTurn /\ last.ok
    /\ last.llmOutcome = "valid"
    /\ last.decision.nextPhase = "completed"
    /\ Stored.phase = "roleplay"

(***************************************************************************)
(* Tool executor and applier called directly (SpecTools)                   *)
(***************************************************************************)
LastIsApply == last.op = "applyToolResultToSession"
LastIsToolCall == last.op = "executeTool"

\* C11: applyToolResultToSession given a result with success=false, for
\* any of the five tool names and with or without data in the result,
\* returns a session equal to its input (updatedAt is not modelled); the
\* same holds for every failure result the executor itself produces.
C11_FailedResultChangesNothing ==
    /\ (LastIsApply /\ ~last.resultData.success) => last.applied = last.before
    /\ (LastIsToolCall /\ ~last.toolResult.resultData.success) => last.applied = last.before

\* a failed mark_complete result that carries a completion was applied to a
\* session in the quiz phase, which stayed in the quiz phase without one
C11_Witness ==
    /\ LastIsApply
    /\ last.toolName = "mark_complete"
    /\ ~last.resultData.success
    /\ last.resultData.data # Undefined
    /\ last.before.phase = "quiz"
    /\ last.applied.phase = "quiz"
    /\ last.applied.completion = Undefined

(***************************************************************************)
(* Tool failure and narration within a turn (SpecNarrated)                 *)
(***************************************************************************)
\* C12 (as the specification states it): when the executor reports
\* success=false during a turn, the tutor message appended for the turn is
\* the original decision's reply verbatim, and the tool leaves phase,
\* activeQuiz, quizResult, mistakes and completion as they were.
C12_FailedToolShowsDecisionReply ==
    (LastIsRoleplayTurn /\ last.ok /\ last.toolStatus = "failed") =>
        /\ LastMessage(Stored).text = last.decision.reply
        /\ Stored.phase = last.before.phase
        /\ Stored.activeQuiz = last.before.activeQuiz
        /\ Stored.quizResult = last.before.quizResult
        /\ Stored.mistakes = last.before.mistakes
        /\ Stored.completion = last.before.completion

\* the result the executor gave the tool of the last turn's decision
LastToolResult == executeTool(last.decision.tool, last.before).resultData

\* within the last turn: the tool ran only after a valid decision, the
\* narration call was made exactly when the tool is start_quiz, grade_quiz
\* or mark_complete and it succeeded, and the turn was saved
StepsInOrder ==
    /\ last.toolCalls = 1 => (last.llmInvocations = 1 /\ last.llmOutcome = "valid")
    /\ last.narrationCalls = 1 <=>
          /\ last.toolStatus = "succeeded"
          /\ last.decision.tool.name \in {"start_quiz", "grade_quiz", "mark_complete"}
    /\ last.narrationCalls = 1 => last.narration # NoResponse
    /\ last.narrationCalls = 0 => last.narration = NoResponse
    /\ Stored.turnCount = last.before.turnCount + 1
    /\ Len(Stored.transcript) = Len(last.before.transcript) + 2

\* the narration collaborator gave no narration: it raised, the fetch
\* failed, the response was not 2xx, or the output had no reply
NarrationFailed ==
    /\ last.narrationCalls = 1
    /\ \/ last.narration.kind \in {"throw", "fetch_error", "http_error"}
       \/ last.narration.kind = "output" /\ last.narration.reply = NoText

LastIsGradeCall == LastIsToolCall /\ last.tool.name = "grade_quiz"

\* the grade_quiz request of the last call is malformed: unknown quiz id,
\* wrong number of answers, or an answer below -1 or not below the option
\* count of its item
MalformedGradeRequest ==
    LET quiz == getQuizById(last.tool.args.quizId)
        answers == last.tool.args.answers
    IN \/ quiz = Undefined
       \/ Len(answers) # Len(quiz.items)
       \/ \E i \in 1..Len(answers) :
             answers[i] < -1 \/ answers[i] >= quiz.items[i].numOptions

\* C14: grade_quiz returns success=false exactly when the quiz id is
\* unknown, the number of answers differs from the number of items, or some
\* answer is below -1 or at least the option count of its item; applying
\* such a result leaves quizResult, phase and every other field of the
\* session as it was.
C14_MalformedGradeRejected ==
    LastIsGradeCall =>
        /\ MalformedGradeRequest <=> ~last.toolResult.resultData.success
        /\ MalformedGradeRequest =>
              /\ last.toolResult.resultData.data = Undefined
              /\ last.applied = last.before

\* a three-item quiz graded in the quiz phase with a last answer of -2
\* was refused and the session kept its phase and had no quiz result
C14_Witness ==
    /\ LastIsGradeCall
    /\ last.tool.args = [quizId |-> "q3", answers |-> <<0, 1, -2>>]
    /\ ~last.toolResult.resultData.success
    /\ last.before.phase = "quiz"
    /\ last.applied.phase = "quiz"
    /\ last.applied.quizResult = Undefined

\* the grade_quiz request of the last call is well formed
ValidGradeRequest == LastIsGradeCall /\ ~MalformedGradeRequest

\* the number of answers of the last grade_quiz request that are not -1 and
\* equal the correct index of their item
LastCorrectCount ==
    LET quiz == getQuizById(last.tool.args.quizId)
        answers == last.tool.args.answers
    IN Cardinality({ i \in 1..Len(answers) :
                       answers[i] # -1 /\ answers[i] = quiz.items[i].correctIndex })

\* C15: for valid input grade_quiz succeeds with the integer score in
\* 0..100 nearest to correctCount / itemCount * 100 (a half rounds up),
\* where an answer counts iff it equals its item's correct index and -1
\* never counts; total is the item count, answers is the array given; and
\* applying the result stores exactly that.
C15_ScoreIsRoundedPercentage ==
    ValidGradeRequest =>
        LET n == Len(getQuizById(last.tool.args.quizId).items)
            c == LastCorrectCount
            result == last.toolResult.resultData.data.quizResult
        IN /\ last.toolResult.resultData.success
           /\ result.score \in 0..100
           /\ 2 * n * result.score <= 200 * c + n
           /\ 200 * c + n < 2 * n * (result.score + 1)
           /\ result.total = n
           /\ result.answers = last.tool.args.answers
           /\ result.quizId = last.tool.args.quizId
           /\ last.applied.quizResult = result

\* answers [0,1,-1] against correct indices [0,1,2] scored 67 of total 3
C15_Witness ==
    /\ LastIsGradeCall
    /\ last.tool.args = [quizId |-> "q3", answers |-> <<0, 1, -1>>]
    /\ last.toolResult.resultData.success
    /\ last.toolResult.resultData.data.quizResult =
          [quizId |-> "q3", score |-> 67, total |-> 3, answers |-> <<0, 1, -1>>]

\* one right answer of eight is 12.5 percent and scored 13
C15_WitnessHalf ==
    /\ LastIsGradeCall
    /\ last.tool.args.quizId = "q8"
    /\ LastCorrectCount = 1
    /\ last.toolResult.resultData.data.quizResult.score = 13

\* C16: applying a successful grade_quiz result stores the result as
\* quizResult and leaves the phase (roleplay, quiz or completed) and the
\* transcript, mistakes, activeQuiz, completion and every other field of
\* the session as they were.
C16_GradeStoresOnlyQuizResult ==
    (LastIsGradeCall /\ last.toolResult.resultData.success) =>
        /\ last.applied.quizResult = last.toolResult.resultData.data.quizResult
        /\ last.applied.phase = last.before.phase
        /\ last.applied.transcript = last.before.transcript
        /\ last.applied.mistakes = last.before.mistakes
        /\ last.applied.activeQuiz = last.before.activeQuiz
        /\ last.applied.completion = last.before.completion
        /\ last.applied = [last.before EXCEPT !.quizResult = last.applied.quizResult]

\* a quiz graded while it is active in the quiz phase: the result is
\* stored, the quiz is still active and the phase is still quiz
C16_Witness ==
    /\ LastIsGradeCall
    /\ last.toolResult.resultData.success
    /\ last.before.phase = "quiz"
    /\ last.before.activeQuiz = [quizId |-> "q1"]
    /\ last.before.quizResult = Undefined
    /\ last.tool.args.quizId = "q1"
    /\ last.applied.quizResult.score = 50
    /\ last.applied.phase = "quiz"
    /\ last.applied.activeQuiz = [quizId |-> "q1"]

(***************************************************************************)
(* Quiz submission through the router, and the write-once fields           *)
(***************************************************************************)
LastIsSubmit == last.op = "submitQuiz" /\ last.before # Undefined

\* the quiz id submitted last is neither the session's active quiz nor its
\* post-quiz
SubmittedQuizMismatch ==
    /\ last.before.activeQuiz = Undefined \/ last.before.activeQuiz.quizId # last.quizId
    /\ last.before.postQuizId # last.quizId

GradeDecisionOfSubmit ==
    [feedback |-> <<"fb">>, correction |-> NoText, isMistake |-> FALSE,
     shouldRetry |-> FALSE, nextPhase |-> NoId, reply |-> <<"reply">>,
     tool |-> [name |-> "grade_quiz",
               args |-> [quizId |-> last.quizId, answers |-> last.answers]]]
GradeStepOfSubmit == ToolStep(last.before, GradeDecisionOfSubmit, FALSE, NoResponse)

\* C18 (as the specification states it): for every quiz id and answers
\* array, submitQuiz succeeds exactly when grade_quiz executed through a
\* turn on the same session succeeds, and then returns and stores the same
\* quiz id, score, total and answers.
C18_SubmitMatchesGradeTool ==
    LastIsSubmit =>
        /\ last.ok <=> GradeStepOfSubmit.toolStatus = "succeeded"
        /\ last.ok =>
              /\ last.result = GradeStepOfSubmit.session.quizResult
              /\ Stored.quizResult = GradeStepOfSubmit.session.quizResult

\* C19 (as the specification states it): activeQuiz, quizResult and
\* completion are each written at most once: whatever call was made last,
\* a value that was set when the call found the session is the value
\* stored after it.
C19_WrittenAtMostOnce ==
    (last.op # "none" /\ last.before # Undefined /\ last.sid \in DOMAIN storage) =>
        /\ last.before.activeQuiz # Undefined => Stored.activeQuiz = last.before.activeQuiz
        /\ last.before.quizResult # Undefined => Stored.quizResult = last.before.quizResult
        /\ last.before.completion # Undefined => Stored.completion = last.before.completion

\* the last call was a turn whose decision carried log_mistake and whose
\* executor returned
LastLoggedMistake ==
    /\ LastIsRoleplayTurn /\ last.ok
    /\ last.toolStatus \in {"succeeded", "failed"}
    /\ last.decision.tool.name = "log_mistake"

\* C20: whatever call was made last (createSession, processTurn, submitQuiz
\* or endSession), the stored mistakes are the ones the call found, except
\* after a turn whose decision carried log_mistake: that tool never reports
\* failure and the stored mistakes are the ones found followed by exactly
\* one record with the original and corrected text of the request and its
\* type (general when none is given).  In particular a decision with
\* isMistake = true and no log_mistake tool leaves them unchanged.
C20_MistakesOnlyAppendedByLogMistake ==
    (last.op # "none" /\ last.before # Undefined /\ last.sid \in DOMAIN storage) =>
        IF LastLoggedMistake
        THEN /\ last.toolStatus = "succeeded"
             /\ Stored.mistakes =
                   Append(last.before.mistakes,
                          [type |-> IF last.decision.tool.args.type \in {NoId, ""}
                                    THEN "general" ELSE last.decision.tool.args.type,
                           original |-> last.decision.tool.args.original,
                           corrected |-> last.decision.tool.args.corrected])
        ELSE Stored.mistakes = last.before.mistakes

\* a second mistake was logged after the first, which is still in place
C20_Witness ==
    /\ LastLoggedMistake
    /\ Len(last.before.mistakes) = 1
    /\ Len(Stored.mistakes) = 2
    /\ Stored.mistakes[1] = last.before.mistakes[1]

\* a decision flagged a mistake without a tool on a session that has one
\* logged, and the log is as it was
C20_WitnessFlagOnly ==
    /\ LastIsRoleplayTurn /\ last.ok
    /\ last.llmOutcome = "valid"
    /\ last.decision.isMistake
    /\ last.decision.tool = NullTool
    /\ Len(last.before.mistakes) = 1
    /\ Stored.mistakes = last.before.mistakes

(***************************************************************************)
(* Hints, session creation and ending, the transcript                      *)
(***************************************************************************)
LastIsHintCall == LastIsToolCall /\ last.tool.name = "get_hint"

\* C21: get_hint returns success=true for every topic (in the table, in
\* the table up to case, not in the table, empty, absent), with a hint as
\* its message and no data, and applying its result leaves the session as
\* it was.
C21_HintAlwaysSucceedsAndChangesNothing ==
    LastIsHintCall =>
        /\ last.toolResult.toolName = "get_hint"
        /\ last.toolResult.resultData.success
        /\ Len(last.toolResult.resultData.message) >= 1
        /\ last.toolResult.resultData.data = Undefined
        /\ last.applied = last.before

\* a hint on a topic that is not in the table, asked on a session in the
\* quiz phase: the generic hint, and the session as it was
C21_Witness ==
    /\ LastIsHintCall
    /\ last.tool.args.topic = "weather"
    /\ last.before.phase = "quiz"
    /\ last.toolResult.resultData.success
    /\ last.toolResult.resultData.message =
          <<"Review the learning goals and try using the vocabulary from this lesson.">>
    /\ last.applied = last.before

LastIsCreate == last.op = "createSession"

\* C22: createSession fails and stores nothing when the scenario is unknown
\* or belongs to another level than the one requested; otherwise it
\* succeeds and the stored session is in roleplay with turnCount 0, no
\* mistakes, no pendingRetry, the requested level and scenario, the
\* scenario's post-quiz, and a transcript of exactly one tutor message, the
\* scenario's initial message.
C22_CreateSessionValidatesAndSeeds ==
    LastIsCreate =>
        LET scenario == getScenarioById(last.scenarioId) IN
        IF scenario = Undefined \/ scenario.levelId # last.levelId
        THEN /\ ~last.ok
             /\ last.error = IF scenario = Undefined THEN "ScenarioNotFound" ELSE "LevelMismatch"
             /\ last.sid \notin DOMAIN storage
        ELSE /\ last.ok
             /\ last.sid \in DOMAIN storage
             /\ Stored.id = last.sid
             /\ Stored.levelId = last.levelId
             /\ Stored.scenarioId = last.scenarioId
             /\ Stored.phase = "roleplay"
             /\ Stored.turnCount = 0
             /\ Stored.mistakes = <<>>
             /\ Stored.pendingRetry = Undefined
             /\ Stored.lastDecision = Undefined
             /\ Stored.postQuizId = scenario.postQuizId
             /\ Stored.transcript = << [role |-> "tutor", text |-> scenario.initialMessage] >>

\* a known scenario was requested under another level: nothing is stored
C22_Witness ==
    /\ LastIsCreate
    /\ last.scenarioId = "taxi" /\ last.levelId = "A2"
    /\ ~last.ok
    /\ DOMAIN storage = {}

\* C23 (as the specification states it): endSession on an existing session
\* in any phase stores the session with phase completed and everything else
\* as it was, and returns a summary with turns = turnCount, hasQuiz true
\* iff postQuizId is set, and that quiz id; for an unknown id it fails and
\* stores nothing.
C23_EndSessionCompletesAndSummarises ==
    (last.op = "endSession") =>
        IF last.before = Undefined
        THEN ~last.ok /\ last.sid \notin DOMAIN storage
        ELSE /\ last.ok
             /\ Stored = [last.before EXCEPT !.phase = "completed"]
             /\ last.summary # Undefined
             /\ last.summary.turns = last.before.turnCount
             /\ last.summary.hasQuiz <=> last.before.postQuizId # NoId
             /\ last.summary.quizId = last.before.postQuizId

\* the same statement of SessionEngine.endSession called directly
EngineEndSessionCompletesAndSummarises ==
    (last.op = "SessionEngine.endSession") =>
        IF last.before = Undefined
        THEN ~last.ok /\ last.sid \notin DOMAIN storage
        ELSE /\ last.ok
             /\ Stored = [last.before EXCEPT !.phase = "completed"]
             /\ last.summary # Undefined
             /\ last.summary.turns = last.before.turnCount
             /\ last.summary.hasQuiz <=> last.before.postQuizId # NoId
             /\ last.summary.quizId = last.before.postQuizId

IsPrefix(s, t) == Len(s) <= Len(t) /\ SubSeq(t, 1, Len(s)) = s

\* C24: every step leaves every stored session with a transcript of
\* 2 * turnCount + 1 messages (the seeded opening message plus a learner
\* and a tutor message per counted turn), and the transcript a session had
\* before the step is a prefix of the one it has after it (append-only).
C24_TranscriptCountsTurnsAndOnlyGrows ==
    [][\A sid \in DOMAIN storage' :
          /\ Len(storage'[sid].transcript) = 2 * storage'[sid].turnCount + 1
          /\ sid \in DOMAIN storage =>
                IsPrefix(storage[sid].transcript, storage'[sid].transcript)]_vars

\* two completed turns, both decided by the tutor model (no gated nudge)
C24_Witness ==
    /\ LastIsTurn /\ last.ok
    /\ last.gate.kind # "nudge" /\ last.llmInvocations = 1
    /\ llmCalls = 2
    /\ Stored.turnCount = 2
    /\ Len(Stored.transcript) = 5

LastIsNormalize == last.op = "normalizeForExactMatch"

\* C25 (as the specification states it): normalizeForExactMatch is
\* idempotent - normalizing the result of a normalization gives that result
\* again, for every text, also for texts that mix whitespace and the
\* punctuation . , ! ? ; : at their boundaries.
C25_NormalizeIsIdempotent ==
    LastIsNormalize => normalizeForExactMatch(last.result) = last.result

LastIsMatch == last.op = "isExactMatch"

\* The comparison as the specification words it, written position by
\* position: s[from .. to] without the characters of `chars' at its ends
Inner(s, chars) ==
    LET keep == {i \in 1 .. Len(s) : s[i] \notin chars}
    IN IF keep = {} THEN << >>
       ELSE SubSeq(s, CHOOSE i \in keep : \A j \in keep : i <= j,
                      CHOOSE i \in keep : \A j \in keep : j <= i)
\* every run of whitespace replaced by one space
OneSpacePerRun(s) ==
    LET keep == {i \in 1 .. Len(s) :
                    ~(s[i] \in WhitespaceChars /\ i > 1 /\ s[i - 1] \in WhitespaceChars)}
        nth(k) == CHOOSE i \in keep : Cardinality({j \in keep : j < i}) = k - 1
    IN [k \in 1 .. Cardinality(keep) |->
            IF s[nth(k)] \in WhitespaceChars THEN " " ELSE s[nth(k)]]
LoweredTrimmedCollapsedStripped(s) ==
    Inner(OneSpacePerRun(Inner(toLowerCase(s), WhitespaceChars)), PunctuationChars)

\* the characters that are neither whitespace nor of the punctuation set
Letters(s) ==
    SelectSeq(toLowerCase(s), LAMBDA c : c \notin WhitespaceChars \cup PunctuationChars)
\* punctuation with such a character somewhere before and somewhere after it
InteriorPunctuation(s) ==
    {i \in 1 .. Len(s) :
        /\ s[i] \in PunctuationChars
        /\ \E j \in 1 .. i - 1 : s[j] \notin WhitespaceChars \cup PunctuationChars
        /\ \E j \in i + 1 .. Len(s) : s[j] \notin WhitespaceChars \cup PunctuationChars}

C26_WitnessNoMatch ==
    /\ LastIsMatch /\ ~last.result
    /\ \/ last.text1 = <<"a", " ", "a">> /\ last.text2 = <<"a">>
       \/ last.text1 = <<"a">> /\ last.text2 = <<"¡", "a">>

NonBlank(text) == text # NoText /\ Len(trim(text)) > 0

\* C27: a decision the validator accepted with shouldRetry = true has a
\* correction that is non-empty after trimming, and in every reachable
\* state a stored pendingRetry has a non-empty expected text.
C27_RetryAlwaysHasExpectedText ==
    /\ (LastIsTurn /\ last.ok /\ last.llmOutcome = "valid" /\ last.decision.shouldRetry)
          => NonBlank(last.decision.correction)
    /\ (LastIsTurn /\ last.ok /\ last.llmOutcome # "valid" /\ last.llmInvocations = 1)
          => last.decision = createFallbackDecision
    /\ \A sid \in DOMAIN storage :
          storage[sid].pendingRetry # Undefined
              => NonBlank(storage[sid].pendingRetry.expected)

\* an accepted decision asked for a retry and its correction was stored as
\* the expected text
C27_Witness ==
    /\ LastIsTurn /\ last.ok /\ last.llmOutcome = "valid"
    /\ last.decision.shouldRetry
    /\ Stored.pendingRetry # Undefined
    /\ Stored.pendingRetry.expected = last.decision.correction
    /\ Stored.pendingRetry.attempts = 0

\* the last turn reached the executor and it returned a result
LastTurnRanTool ==
    LastIsTurn /\ last.ok /\ last.toolCalls = 1 /\ last.toolStatus \in {"succeeded", "failed"}
\* what the executor returns for the decision's tool on the loaded record
ToolResultOnLoaded == executeTool(last.decision.tool, last.before)

\* C28: in a turn that runs a tool, the tool's result is the one the
\* executor gives for the session as loaded (before this turn's learner
\* message, tutor message, turnCount increment and decision), and the saved
\* session is the loaded one changed only by the applier and the turn's own
\* update - for each of the five tools, whether the tool succeeds or fails.
C28_ToolRunsOnLoadedSessionAndLeavesIt ==
    LastTurnRanTool =>
        /\ last.decision.tool.name \in ToolNames
        /\ last.toolStatus = "succeeded" <=> ToolResultOnLoaded.resultData.success
        /\ last.narrationCalls = 0 =>
              LastMessage(Stored).text = ToolResultOnLoaded.resultData.message
        /\ Stored = UpdatedSession(
                        applyToolResultToSession(last.before, ToolResultOnLoaded.toolName,
                                                 ToolResultOnLoaded.resultData),
                        [role |-> "user", text |-> last.userText],
                        LastMessage(Stored),
                        NewPendingRetry(Stored.lastDecision),
                        Stored.lastDecision)
        /\ ~ToolResultOnLoaded.resultData.success =>
              [Stored EXCEPT !.transcript = last.before.transcript,
                             !.turnCount = last.before.turnCount,
                             !.pendingRetry = last.before.pendingRetry,
                             !.lastDecision = last.before.lastDecision] = last.before

\* a first turn asks for a hint without a topic: the loaded session has no
\* lastDecision yet, so the learner gets the generic hint, although the
\* session this turn saves has a lastDecision
C28_Witness ==
    /\ LastTurnRanTool
    /\ last.decision.tool = [name |-> "get_hint", args |-> [topic |-> NoId]]
    /\ last.before.lastDecision = Undefined
    /\ Stored.lastDecision # Undefined
    /\ LastMessage(Stored).text =
          <<"Review the learning goals and try using the vocabulary from this lesson.">>

\* a failed tool in a turn (unknown quiz)
C28_WitnessFailure ==
    /\ LastTurnRanTool /\ last.toolStatus = "failed"
    /\ last.decision.tool.name = "start_quiz"

\* caller c has a call in progress on session id
InProgressOn(c, id) == inflight[c].pc \notin {"idle", "done"} /\ inflight[c].sid = id

\* C29: a step of a call (processTurn, endSession or submitQuiz, at any of
\* its await points, with other calls suspended in between) changes the
\* stored record of no session other than the one the call is addressed
\* to; creating a session changes no existing record.
C29_OtherSessionsUntouched ==
    [][\A b \in DOMAIN storage :
          /\ b \in DOMAIN storage'
          /\ storage'[b] # storage[b] =>
                \E c \in Callers : InProgressOn(c, b) /\ inflight'[c] # inflight[c]]_vars

\* a turn on s1 was saved and has returned while a turn on s2 is waiting
\* for the tutor model; s2's record is as it was created
C29_Witness ==
    /\ DOMAIN storage = {"s1", "s2"}
    /\ \E c, d \in Callers :
          /\ inflight[c].pc = "done" /\ inflight[c].sid = "s1"
          /\ heap.ref["s1"] = inflight[c].saved
          /\ inflight[d].pc = "llm" /\ inflight[d].sid = "s2"
          /\ inflight[d].obj = heap.ref["s2"]
    /\ storage["s1"].turnCount = 1
    /\ storage["s2"] = createSession("s2", "A1", "taxi").session

\* two returned turns of different callers that had loaded the same object
RacingTurns(c, d) ==
    /\ c # d
    /\ inflight[c].pc = "done" /\ inflight[d].pc = "done"
    /\ inflight[c].sid = inflight[d].sid
    /\ inflight[c].obj = inflight[d].obj

\* C30: when two processTurn calls on one session have both loaded the same
\* record before either saved, both return success and the stored session
\* is the one the later save wrote: one learner and one tutor message and
\* one counted turn more than the loaded record, not two of each.
C30_LaterSaveWins ==
    \A c, d \in Callers :
        (RacingTurns(c, d) /\ heap.ref[inflight[c].sid] = inflight[c].saved) =>
            LET loaded == heap.obj[inflight[c].obj]
                stored == storage[inflight[c].sid]
            IN /\ stored = heap.obj[inflight[c].saved]
               /\ stored.turnCount = loaded.turnCount + 1
               /\ Len(stored.transcript) = Len(loaded.transcript) + 2
               /\ SubSeq(stored.transcript, 1, Len(loaded.transcript)) = loaded.transcript

\* both turns on the new session s1 returned; the stored session counts one
\* turn and has three messages
C30_Witness ==
    \E c, d \in Callers :
        /\ RacingTurns(c, d) /\ inflight[c].sid = "s1"
        /\ heap.ref["s1"] = inflight[c].saved
        /\ llmCalls = 2
        /\ storage["s1"].turnCount = 1
        /\ Len(storage["s1"].transcript) = 3

\* C31: the attempts of every stored pendingRetry are 0, 1 or 2; the value
\* 3 exists only inside the turn that reaches it, whose saved pendingRetry
\* comes from that turn's decision (attempts 0) or is absent.
C31_StoredAttemptsBelowMax ==
    /\ \A sid \in DOMAIN storage :
          storage[sid].pendingRetry # Undefined
              => storage[sid].pendingRetry.attempts \in 0 .. MaxRetryAttempts - 1
    /\ (LastIsTurn /\ last.ok /\ last.gate.kind = "escalate") =>
          /\ last.gate.pendingRetry.attempts = MaxRetryAttempts
          /\ last.llmInvocations = 1
          /\ Stored.pendingRetry = NewPendingRetry(Stored.lastDecision)
          /\ Stored.pendingRetry # Undefined => Stored.pendingRetry.attempts = 0

\* the third failed attempt: the turn went on to the tutor model with
\* attempts 3 and saved a fresh pendingRetry
C31_Witness ==
    /\ LastIsTurn /\ last.ok /\ last.gate.kind = "escalate"
    /\ last.before.pendingRetry.attempts = 2
    /\ last.gate.pendingRetry.attempts = 3
    /\ Stored.pendingRetry # Undefined
    /\ Stored.pendingRetry.attempts = 0

\* tutor, user, tutor, ..., tutor
AlternatesFromTutor(transcript) ==
    /\ Len(transcript) >= 1
    /\ \A i \in 1 .. Len(transcript) :
          transcript[i].role = IF i % 2 = 1 THEN "tutor" ELSE "user"
    /\ transcript[Len(transcript)].role = "tutor"

\* C32: in every stored session the transcript starts with a tutor
\* message, alternates tutor and user, ends with a tutor message and has
\* 2 * turnCount + 1 messages - also after turns answered locally by the
\* retry gate, which count as turns too.
C32_TranscriptAlternates ==
    \A sid \in DOMAIN storage :
        /\ AlternatesFromTutor(storage[sid].transcript)
        /\ Len(storage[sid].transcript) = 2 * storage[sid].turnCount + 1

\* a turn answered locally by the retry gate was saved as the second turn
C32_Witness ==
    /\ LastIsTurn /\ last.ok /\ last.gate.kind = "nudge"
    /\ last.llmInvocations = 0
    /\ Stored.turnCount = 2
    /\ Len(Stored.transcript) = 5
    /\ Stored.transcript[4].role = "user"
    /\ Stored.transcript[5].role = "tutor"

\* C33 (as the specification states it): in every stored session with a
\* lastDecision, lastDecision.reply is the text of the most recent tutor
\* message of the transcript - also after a turn answered locally by the
\* retry gate.
C33_LastDecisionReplyIsLastTutorText ==
    \A sid \in DOMAIN storage :
        storage[sid].lastDecision # Undefined
            => storage[sid].lastDecision.reply = LastMessage(storage[sid]).text

\* the same statement for the turns that reach the tutor model only
ReplyIsLastTutorTextAfterDecidedTurn ==
    (LastIsTurn /\ last.ok /\ last.gate.kind # "nudge")
        => Stored.lastDecision.reply = LastMessage(Stored).text

\* C34: in every stored session a completion record is present only in
\* phase completed, and an activeQuiz only in phase quiz or completed.
C34_CompletionAndQuizMatchPhase ==
    \A sid \in DOMAIN storage :
        /\ storage[sid].completion # Undefined => storage[sid].phase = "completed"
        /\ storage[sid].activeQuiz # Undefined => storage[sid].phase \in {"quiz", "completed"}

\* a turn applied mark_complete: the completion record is stored with
\* phase completed
C34_Witness ==
    /\ LastIsTurn /\ last.ok /\ last.toolStatus = "succeeded"
    /\ last.decision.tool.name = "mark_complete"
    /\ Stored.completion # Undefined
    /\ Stored.phase = "completed"

\* a session whose quiz was started has been ended: activeQuiz is kept
C34_WitnessEndedQuiz ==
    /\ last.op = "endSession" /\ last.ok
    /\ Stored.activeQuiz # Undefined
    /\ Stored.phase = "completed"
    /\ Stored.completion = Undefined

\* C35 (as the specification states it): also with calls interleaving on
\* one session, no step moves a stored phase from completed back to
\* roleplay or quiz.
C35_CompletedStaysCompleted ==
    [][\A sid \in DOMAIN storage :
          storage[sid].phase = "completed" => storage'[sid].phase = "completed"]_vars

(***************************************************************************)
(* C36: a session that a successful POST /api/session/start created is     *)
(* found by every later turn, end, quiz-submit and get request of the      *)
(* same worker: no such request on an issued id is answered "Session not   *)
(* found".                                                                 *)
(***************************************************************************)
SessionRouteOps ==
    {"POST /api/session/turn", "POST /api/session/end",
     "POST /api/quiz/submit", "GET /api/session/:id"}

C36_StartedSessionIsFound ==
    (last.op \in SessionRouteOps /\ last.sid \in last.issued)
        => last.error # "NotFound"

(***************************************************************************)
(* C37: the start handler creates a session for the (levelId, scenarioId)  *)
(* pair of the request body: it succeeds whenever the scenario exists and  *)
(* belongs to that level, and the session it creates carries the body's    *)
(* levelId and scenarioId.                                                 *)
(***************************************************************************)
BodyIsValidPair(body) ==
    /\ getScenarioById(body.scenarioId) # Undefined
    /\ getScenarioById(body.scenarioId).levelId = body.levelId

C37_StartCreatesForBodyPair ==
    last.op = "POST /api/session/start" =>
        /\ BodyIsValidPair(last.body) => last.ok
        /\ last.ok => /\ last.session.levelId = last.body.levelId
                      /\ last.session.scenarioId = last.body.scenarioId

(***************************************************************************)
(* C38: the transcript passed to the tutor model for a turn is the last    *)
(* 12 entries of the stored transcript followed by the learner's text: it  *)
(* ends with the learner's message, has at most 12 entries, and is the     *)
(* tail of that sequence in the original order (only the oldest entries    *)
(* are dropped).                                                           *)
(***************************************************************************)
StoredThenLearner ==
    [i \in 1 .. Len(last.transcript) + 1 |->
        IF i <= Len(last.transcript)
        THEN [role |-> last.transcript[i].role, text |-> last.transcript[i].text]
        ELSE [role |-> "user", text |-> last.userText]]

C38_WindowIsLastTwelve ==
    last.op = "recentTranscript" =>
        LET full == StoredThenLearner
            w == last.result
            dropped == Len(full) - Len(w)
        IN /\ Len(w) <= 12
           /\ Len(w) = (IF Len(full) < 12 THEN Len(full) ELSE 12)
           /\ w[Len(w)] = [role |-> "user", text |-> last.userText]
           /\ \A i \in 1 .. Len(w) : w[i] = full[dropped + i]

C38_Witness ==
    /\ last.op = "recentTranscript"
    /\ Len(last.transcript) + 1 > 12
    /\ Len(last.result) = 12
    /\ last.result[1] = last.transcript[Len(last.transcript) - 10]

====
